---- MODULE Spec2Model ----
(***************************************************************************)
(* Team-partitioning and filtering engine of the team management app:      *)
(* utils/filters.ts (applyFilters), utils/teamBalancer.ts (TeamBalancer),  *)
(* and the TeamGenerator component (filter/clamp effect, generateTeams).   *)
(*                                                                         *)
(* Conventions.  A JavaScript value that may be undefined is a sequence:   *)
(* <<>> is undefined, <<n>> is the number n.  An optional range object is  *)
(* a record with a `given` flag.  Template strings that only number their  *)
(* subject (`team-${i+1}`, `Team ${i+1}`) are kept as that number; the     *)
(* gender prefix of a team name is a separate field.  avgSkill is held in  *)
(* tenths (Math.round(avg * 10), before the division by 10).               *)
(***************************************************************************)
EXTENDS Integers, Sequences, FiniteSets, TLC

VARIABLES
    members,            \* the Member[] argument of the call under examination
    ret,                \* what the last call returned (kind "none" before a call)
    attendancePool,     \* TeamGenerator state
    filteredMembers,
    genderFilter,
    genderMode,
    generationOptions,
    teams,
    isGenerating,
    alerts,             \* minimum passed to alert(), <<>> when none was shown
    pending,            \* generateTeams invocations suspended in their 500 ms delay
    effectDue,          \* the filter/clamp effect has dependencies that changed
    effectRange,        \* adjustedMin/adjustedMax of the effect's last run
    teamClampRule,      \* settings.teamClampRule as read by the component
    locations,          \* DataManager.locations
    storage,            \* the roster under STORAGE_KEY in localStorage
    thrown,             \* message of the error the last call threw, "" when none
    clock,              \* Date.now()
    selectedLocationIds, \* selection store
    selectedGroupIds,
    selectedMemberIds,
    presenceByMemberId, \* AttendanceManager state: optimistic presence
    presenceTimer,      \* module-level record: member id -> handle of its last timer
    timers,             \* the pending setTimeout callbacks of the presence debounce
    error,              \* AttendanceManager state: error banner
    presenceCalls       \* updateMemberPresence calls made so far

vars == <<members, ret, attendancePool, filteredMembers, genderFilter, genderMode,
          generationOptions, teams, isGenerating, alerts, pending, effectDue,
          effectRange, teamClampRule, locations, storage, thrown, clock,
          selectedLocationIds, selectedGroupIds, selectedMemberIds,
          presenceByMemberId, presenceTimer, timers, error, presenceCalls>>

dataVars == <<locations, storage, thrown, clock>>
selectionVars == <<selectedLocationIds, selectedGroupIds, selectedMemberIds>>
presenceVars == <<presenceByMemberId, presenceTimer, timers, error, presenceCalls>>
rosterVars == <<dataVars, selectionVars, presenceVars>>

callVars == <<members, ret>>
uiVars == <<attendancePool, filteredMembers, genderFilter, genderMode,
            generationOptions, teams, isGenerating, alerts, pending, effectDue,
            effectRange, teamClampRule>>

-----------------------------------------------------------------------------
(* Bounds *)

MaxPool == 4            \* longest pool handed to a call
MaxTeams == 3           \* largest numberOfTeams handed to a call
MaxRequested == 5       \* largest team count requested of a separated generation
MaxFilterPool == 2      \* longest list handed to applyFilters
MaxUIPool == 3          \* largest attendance pool of the component
MaxPending == 1         \* generations waiting for their 500 ms timer
MaxClampPool == 17      \* largest filtered pool the clamp is computed for
MaxSettlePool == 5      \* largest attendance pool while only filters and clamp act
MaxDraftPool == 5       \* largest pool handed to the snake draft
MaxAllocPool == 6       \* largest pool handed to the separated allocation
MaxShuffle == 3         \* longest pool handed to a call that shuffles
MaxCount == 3           \* largest count handed to getRandomMembers
MaxOverlap == 2         \* generations waiting at once when Regenerate is clicked again
MaxOverlapPool == 3     \* largest attendance pool while generations overlap
MaxTeamSize == 40       \* largest team handed to calculateTeamStats
MaxRulePool == 2        \* longest list handed to applyFilters with numeric rules
MaxShuffleLen == 4      \* longest array handed to shuffleArray alone
MaxSelect == 2          \* most ids handed to one call of the selection store
MaxToggles == 3         \* presence toggles in one run of the attendance screen
MaxGroupsPerLocation == 2 \* settings.maxGroupsPerLocation of the roster runs
MaxClock == 2           \* last value of Date.now() in a roster run
MaxRosterMembers == 1   \* most members of a location in a roster run

(* Program constants *)

CurrentYear == 2026
MaxSkillLevel == 5
ClampFloor == 2
ClampCeiling == 8

Genders == {"Male", "Female", "Other"}
TeamTypes == {"balanced", "female", "male", "age", "skill"}

-----------------------------------------------------------------------------
(* JavaScript helpers *)

Undefined == <<>>
Num(n) == <<n>>

\* a >= b and a <= b where a may be undefined: undefined coerces to NaN and
\* every comparison with NaN is false
JsGte(a, b) == a # Undefined /\ a[1] >= b
JsLte(a, b) == a # Undefined /\ a[1] <= b

Min2(a, b) == IF a < b THEN a ELSE b
Max2(a, b) == IF a > b THEN a ELSE b

\* Math.round(num / den) for num >= 0, den > 0: halves round up
RoundDiv(num, den) == (2 * num + den) \div (2 * den)

NoRange == [given |-> FALSE, min |-> 0, max |-> 0]
Range(lo, hi) == [given |-> TRUE, min |-> lo, max |-> hi]

RECURSIVE SumSkill(_)
SumSkill(ms) == IF ms = <<>> THEN 0 ELSE Head(ms).skillLevel + SumSkill(Tail(ms))

RECURSIVE Concat(_)
Concat(ss) == IF ss = <<>> THEN <<>> ELSE Head(ss) \o Concat(Tail(ss))

-----------------------------------------------------------------------------
(* Members as the roster store hands them out *)

\* DataManager.loadData: every stored member loses its age field
loadData(stored) == [i \in 1..Len(stored) |-> [stored[i] EXCEPT !.age = Undefined]]

AttrKeys == {"jersey"}
NoAttrs == [k \in AttrKeys |-> [t |-> "undef", n |-> 0, s |-> <<>>, b |-> FALSE, l |-> <<>>]]

\* A stored member: the legacy record still carries the age written when it
\* was saved (the year before); ids are unique in the roster.
StoredMember(i, g, s, by) ==
    [id |-> i, gender |-> g, skillLevel |-> s, birthYear |-> by,
     age |-> Num(CurrentYear - 1 - by), attrs |-> NoAttrs]

DrawnSkills == {1, 2}
GenderSkillProfiles == Genders \X DrawnSkills \X {CurrentYear - 20}
AgeProfiles == {"Male"} \X {3} \X {CurrentYear - 10, CurrentYear - 15, CurrentYear - 20}

PoolsOver(profiles, maxLen) ==
    UNION {{[i \in 1..n |-> StoredMember(i, p[i][1], p[i][2], p[i][3])] :
               p \in [1..n -> profiles]} : n \in 0..maxLen}

\* the people of the pools handed to generateTeams
GenderProfiles == {<<"Male", 2, CurrentYear - 20>>, <<"Female", 1, CurrentYear - 20>>,
                   <<"Female", 2, CurrentYear - 20>>, <<"Other", 1, CurrentYear - 20>>}

BalancerPools ==
    {loadData(s) : s \in PoolsOver(GenderProfiles, MaxPool)
                         \cup PoolsOver(AgeProfiles, MaxPool)}

-----------------------------------------------------------------------------
(* utils/teamBalancer.ts *)

Swap(arr, i, j) == [arr EXCEPT ![i] = arr[j], ![j] = arr[i]]

\* draws[i] is Math.floor(Math.random() * (i + 1)) + 1 for the 1-based slot i
DrawSeqs(n) == {d \in [1..n -> 1..Max2(n, 1)] : \A i \in 1..n : d[i] <= i}

RECURSIVE shuffleFromStopEarly(_, _, _)
shuffleFromStopEarly(shuffled, i, draws) ==
    IF i <= 2 THEN shuffled
    ELSE shuffleFromStopEarly(Swap(shuffled, i, draws[i]), i - 1, draws)

\* the loop of shuffleArray from slot i down to the second slot
RECURSIVE shuffleFrom(_, _, _)
shuffleFrom(shuffled, i, draws) ==
    IF i <= 1 THEN shuffled
    ELSE shuffleFrom(Swap(shuffled, i, draws[i]), i - 1, draws)

shuffleArray(array, draws) == shuffleFrom(array, Len(array), draws)

emptyTeam(i) ==
    [id |-> i + 1, name |-> [prefix |-> "", n |-> i + 1], members |-> <<>>,
     avgSkill |-> 0, genderRatio |-> [male |-> 0, female |-> 0, other |-> 0]]

initTeams(numberOfTeams) == [i \in 1..numberOfTeams |-> emptyTeam(i - 1)]

genderCount(ms, g) == Cardinality({i \in 1..Len(ms) : ms[i].gender = g})

\* the <<count, total>> with total < 80 for which the double
\* (count / total) * 100 lies below the exact value k + 1/2 it stands for:
\* (23 / 40) * 100 is 57.49999999999999
PercentBelowHalf == {<<23, 40>>}

\* Math.round((count / total) * 100) in double arithmetic, total < 80
roundPercent(count, total) ==
    IF <<count, total>> \in PercentBelowHalf
    THEN RoundDiv(100 * count, total) - 1
    ELSE RoundDiv(100 * count, total)

\* avgSkill in tenths: Math.round((sum / total) * 10) is the exact rounding
\* for every total up to 400 and skill levels up to 10
calculateTeamStats(team) ==
    IF Len(team.members) = 0
    THEN [team EXCEPT !.avgSkill = 0,
                      !.genderRatio = [male |-> 0, female |-> 0, other |-> 0]]
    ELSE LET total == Len(team.members)
         IN [team EXCEPT
               !.avgSkill = RoundDiv(10 * SumSkill(team.members), total),
               !.genderRatio =
                   [male |-> roundPercent(genderCount(team.members, "Male"), total),
                    female |-> roundPercent(genderCount(team.members, "Female"), total),
                    other |-> roundPercent(genderCount(team.members, "Other"), total)]]

\* [...members].sort((a, b) => b.skillLevel - a.skillLevel): a stable sort
RECURSIVE insertBySkillAhead(_, _)
insertBySkillAhead(sorted, m) ==
    IF sorted = <<>> THEN <<m>>
    ELSE IF Head(sorted).skillLevel > m.skillLevel
         THEN <<Head(sorted)>> \o insertBySkillAhead(Tail(sorted), m)
         ELSE <<m>> \o sorted

RECURSIVE insertBySkill(_, _)
insertBySkill(sorted, m) ==
    IF sorted = <<>> THEN <<m>>
    ELSE IF Head(sorted).skillLevel >= m.skillLevel
         THEN <<Head(sorted)>> \o insertBySkill(Tail(sorted), m)
         ELSE <<m>> \o sorted

sortBySkillDescUnsorted(ms) == ms

RECURSIVE sortBySkillDesc(_)
sortBySkillDesc(ms) ==
    IF ms = <<>> THEN <<>>
    ELSE insertBySkill(sortBySkillDesc(SubSeq(ms, 1, Len(ms) - 1)), ms[Len(ms)])

\* variant: the direction is not reversed at the last team
RECURSIVE snakeDraftNoTurn(_, _, _, _, _)
snakeDraftNoTurn(sortedMembers, ts, currentTeamIndex, direction, numberOfTeams) ==
    IF sortedMembers = <<>> THEN ts
    ELSE LET placed == [ts EXCEPT ![currentTeamIndex + 1].members =
                                      Append(@, Head(sortedMembers))]
             moved == currentTeamIndex + direction
         IN IF moved >= numberOfTeams
            THEN snakeDraftNoTurn(Tail(sortedMembers), placed, numberOfTeams - 1, 1,
                                  numberOfTeams)
            ELSE IF moved < 0
                 THEN snakeDraftNoTurn(Tail(sortedMembers), placed, 0, 1, numberOfTeams)
                 ELSE snakeDraftNoTurn(Tail(sortedMembers), placed, moved, direction,
                                       numberOfTeams)

\* the for-of loop of the snake draft; currentTeamIndex is 0-based as in the code
RECURSIVE snakeDraft(_, _, _, _, _)
snakeDraft(sortedMembers, ts, currentTeamIndex, direction, numberOfTeams) ==
    IF sortedMembers = <<>> THEN ts
    ELSE LET placed == [ts EXCEPT ![currentTeamIndex + 1].members =
                                      Append(@, Head(sortedMembers))]
             moved == currentTeamIndex + direction
         IN IF moved >= numberOfTeams
            THEN snakeDraft(Tail(sortedMembers), placed, numberOfTeams - 1, -1, numberOfTeams)
            ELSE IF moved < 0
                 THEN snakeDraft(Tail(sortedMembers), placed, 0, 1, numberOfTeams)
                 ELSE snakeDraft(Tail(sortedMembers), placed, moved, direction, numberOfTeams)

createBalancedTeams(ms, numberOfTeams) ==
    LET drafted == snakeDraft(sortBySkillDesc(ms), initTeams(numberOfTeams), 0, 1,
                              numberOfTeams)
    IN [i \in 1..numberOfTeams |-> calculateTeamStats(drafted[i])]

\* variant: the loop stops one member early
RECURSIVE dealRoundRobinShort(_, _, _, _)
dealRoundRobinShort(shuffledMembers, index, ts, numberOfTeams) ==
    IF index >= Len(shuffledMembers) - 1 THEN ts
    ELSE dealRoundRobinShort(shuffledMembers, index + 1,
             [ts EXCEPT ![(index % numberOfTeams) + 1].members =
                            Append(@, shuffledMembers[index + 1])],
             numberOfTeams)

RECURSIVE dealRoundRobin(_, _, _, _)
dealRoundRobin(shuffledMembers, index, ts, numberOfTeams) ==
    IF index >= Len(shuffledMembers) THEN ts
    ELSE dealRoundRobin(shuffledMembers, index + 1,
             [ts EXCEPT ![(index % numberOfTeams) + 1].members =
                            Append(@, shuffledMembers[index + 1])],
             numberOfTeams)

createRandomTeamsNonEmpty(ms, numberOfTeams, draws) ==
    LET dealt == dealRoundRobin(shuffleArray(ms, draws), 0, initTeams(numberOfTeams),
                                numberOfTeams)
    IN SelectSeq([i \in 1..numberOfTeams |-> calculateTeamStats(dealt[i])],
                 LAMBDA t : t.members # <<>>)

createRandomTeams(ms, numberOfTeams, draws) ==
    LET dealt == dealRoundRobin(shuffleArray(ms, draws), 0, initTeams(numberOfTeams),
                                numberOfTeams)
    IN [i \in 1..numberOfTeams |-> calculateTeamStats(dealt[i])]

\* the switch on options.type: the local filteredMembers of generateTeams
preFilter(ms, options) ==
    CASE options.type = "female" -> SelectSeq(ms, LAMBDA m : m.gender = "Female")
      [] options.type = "male" -> SelectSeq(ms, LAMBDA m : m.gender = "Male")
      [] options.type = "age" ->
            IF options.ageRange.given
            THEN SelectSeq(ms, LAMBDA m : JsGte(m.age, options.ageRange.min)
                                          /\ JsLte(m.age, options.ageRange.max))
            ELSE ms
      [] options.type = "skill" ->
            IF options.skillRange.given
            THEN SelectSeq(ms, LAMBDA m : m.skillLevel >= options.skillRange.min
                                          /\ m.skillLevel <= options.skillRange.max)
            ELSE ms
      [] OTHER -> ms

generateTeams(ms, options, draws) ==
    IF Len(ms) = 0 THEN <<>>
    ELSE LET filtered == preFilter(ms, options)
         IN IF Len(filtered) = 0 THEN <<>>
            ELSE IF options.type = "balanced"
                 THEN createBalancedTeams(filtered, options.numberOfTeams)
                 ELSE createRandomTeams(filtered, options.numberOfTeams, draws)

\* the three filter steps of getRandomMembers; filters.gender is "" when not
\* set (falsy), the ranges are optional
pickFiltered(ms, filters) ==
    LET byGender == IF filters.gender # ""
                    THEN SelectSeq(ms, LAMBDA m : m.gender = filters.gender)
                    ELSE ms
        byAge == IF filters.ageRange.given
                 THEN SelectSeq(byGender, LAMBDA m : JsGte(m.age, filters.ageRange.min)
                                                     /\ JsLte(m.age, filters.ageRange.max))
                 ELSE byGender
    IN IF filters.skillRange.given
       THEN SelectSeq(byAge, LAMBDA m : m.skillLevel >= filters.skillRange.min
                                        /\ m.skillLevel <= filters.skillRange.max)
       ELSE byAge

getRandomMembers(ms, count, filters, draws) ==
    LET shuffled == shuffleArray(pickFiltered(ms, filters), draws)
    IN SubSeq(shuffled, 1, Min2(count, Len(shuffled)))

-----------------------------------------------------------------------------
(* Attribute and rule values: string | number | boolean | string[] | undefined.
   A string is a sequence of one-character strings. *)

VUndef == [t |-> "undef", n |-> 0, s |-> <<>>, b |-> FALSE, l |-> <<>>]
VNum(x) == [t |-> "num", n |-> x, s |-> <<>>, b |-> FALSE, l |-> <<>>]
VStr(x) == [t |-> "str", n |-> 0, s |-> x, b |-> FALSE, l |-> <<>>]
VBool(x) == [t |-> "bool", n |-> 0, s |-> <<>>, b |-> x, l |-> <<>>]
VList(x) == [t |-> "list", n |-> 0, s |-> <<>>, b |-> FALSE, l |-> x]

Digit(d) == CASE d = 0 -> "0" [] d = 1 -> "1" [] d = 2 -> "2" [] d = 3 -> "3"
              [] d = 4 -> "4" [] d = 5 -> "5" [] d = 6 -> "6" [] d = 7 -> "7"
              [] d = 8 -> "8" [] OTHER -> "9"
DigitChars == {Digit(d) : d \in 0..9}
DigitOf(c) == CHOOSE d \in 0..9 : Digit(d) = c

\* String(n) for a natural number n
RECURSIVE NatToString(_)
NatToString(x) == IF x < 10 THEN <<Digit(x)>>
                  ELSE Append(NatToString(x \div 10), Digit(x % 10))

RECURSIVE JoinComma(_)
JoinComma(l) == IF l = <<>> THEN <<>>
                ELSE IF Len(l) = 1 THEN l[1]
                ELSE l[1] \o <<",">> \o JoinComma(Tail(l))

\* String(v)
JsString(v) ==
    CASE v.t = "undef" -> <<"u", "n", "d", "e", "f", "i", "n", "e", "d">>
      [] v.t = "num" -> NatToString(v.n)
      [] v.t = "str" -> v.s
      [] v.t = "bool" -> IF v.b THEN <<"t", "r", "u", "e">>
                         ELSE <<"f", "a", "l", "s", "e">>
      [] OTHER -> JoinComma(v.l)

LowerChar(c) == CASE c = "A" -> "a" [] c = "B" -> "b" [] c = "C" -> "c" [] OTHER -> c
toLowerCase(s) == [i \in 1..Len(s) |-> LowerChar(s[i])]

\* hay.includes(needle)
includes(hay, needle) ==
    \E i \in 0..(Len(hay) - Len(needle)) :
        \A j \in 1..Len(needle) : hay[i + j] = needle[j]

RECURSIVE ParseDigits(_, _)
ParseDigits(s, acc) == IF s = <<>> THEN acc
                       ELSE ParseDigits(Tail(s), 10 * acc + DigitOf(Head(s)))

\* Number(string): the empty string is 0, a run of digits its value, else NaN
NumberOfString(s) ==
    IF s = <<>> THEN Num(0)
    ELSE IF \A i \in 1..Len(s) : s[i] \in DigitChars THEN Num(ParseDigits(s, 0))
    ELSE Undefined

JsNumberUndefinedZero(v) ==
    CASE v.t = "undef" -> Num(0)
      [] v.t = "num" -> Num(v.n)
      [] v.t = "bool" -> Num(IF v.b THEN 1 ELSE 0)
      [] v.t = "str" -> NumberOfString(v.s)
      [] OTHER -> NumberOfString(JoinComma(v.l))

\* Number(v); <<>> stands for NaN
JsNumber(v) ==
    CASE v.t = "undef" -> Undefined
      [] v.t = "num" -> Num(v.n)
      [] v.t = "bool" -> Num(IF v.b THEN 1 ELSE 0)
      [] v.t = "str" -> NumberOfString(v.s)
      [] OTHER -> NumberOfString(JoinComma(v.l))

\* !!v
Truthy(v) ==
    CASE v.t = "undef" -> FALSE
      [] v.t = "num" -> v.n # 0
      [] v.t = "str" -> v.s # <<>>
      [] v.t = "bool" -> v.b
      [] OTHER -> TRUE

\* v === w; two arrays are never the same object here
StrictEquals(v, w) == v.t = w.t /\ v.t # "list" /\ v = w

-----------------------------------------------------------------------------
(* utils/filters.ts *)

ageOf(m) == CurrentYear - m.birthYear

\* attrs[r.key] with attrs = m.attrs || {}
attrOf(m, key) == IF key \in DOMAIN m.attrs THEN m.attrs[key] ELSE VUndef

rulePassKnownOnly(m, r) ==
    LET v == attrOf(m, r.key)
    IN CASE r.op = "equals" -> StrictEquals(v, r.value)
         [] r.op = "contains" ->
               includes(toLowerCase(IF v.t = "undef" THEN <<>> ELSE JsString(v)),
                        toLowerCase(JsString(r.value)))
         [] r.op = "gte" -> JsNumber(v) # Undefined /\ JsNumber(r.value) # Undefined
                            /\ JsNumber(v)[1] >= JsNumber(r.value)[1]
         [] r.op = "lte" -> JsNumber(v) # Undefined /\ JsNumber(r.value) # Undefined
                            /\ JsNumber(v)[1] <= JsNumber(r.value)[1]
         [] r.op = "in" -> r.value.t = "list"
                           /\ \E i \in 1..Len(r.value.l) :
                                  StrictEquals(VStr(r.value.l[i]), v)
         [] r.op = "is" -> Truthy(v) = Truthy(r.value)
         [] OTHER -> FALSE

\* the conditional chain of the loop body; its last branch is true
rulePass(m, r) ==
    LET v == attrOf(m, r.key)
    IN CASE r.op = "equals" -> StrictEquals(v, r.value)
         [] r.op = "contains" ->
               includes(toLowerCase(IF v.t = "undef" THEN <<>> ELSE JsString(v)),
                        toLowerCase(JsString(r.value)))
         [] r.op = "gte" -> JsNumber(v) # Undefined /\ JsNumber(r.value) # Undefined
                            /\ JsNumber(v)[1] >= JsNumber(r.value)[1]
         [] r.op = "lte" -> JsNumber(v) # Undefined /\ JsNumber(r.value) # Undefined
                            /\ JsNumber(v)[1] <= JsNumber(r.value)[1]
         [] r.op = "in" -> r.value.t = "list"
                           /\ \E i \in 1..Len(r.value.l) :
                                  StrictEquals(VStr(r.value.l[i]), v)
         [] r.op = "is" -> Truthy(v) = Truthy(r.value)
         [] OTHER -> TRUE

RECURSIVE rulesPassAny(_, _)
rulesPassAny(m, customRules) ==
    IF customRules = <<>> THEN TRUE
    ELSE IF rulePass(m, Head(customRules)) THEN TRUE
    ELSE Tail(customRules) # <<>> /\ rulesPassAny(m, Tail(customRules))

\* the for-of loop over customRules, leaving at the first failing rule
RECURSIVE rulesPass(_, _)
rulesPass(m, customRules) ==
    IF customRules = <<>> THEN TRUE
    ELSE IF ~rulePass(m, Head(customRules)) THEN FALSE
    ELSE rulesPass(m, Tail(customRules))

keepMemberEveryBand(m, opts) ==
    IF ~opts.genderFilter[m.gender] THEN FALSE
    ELSE LET age == ageOf(m)
             ageOk ==
                 IF Len(opts.ageBands) > 0
                 THEN \A i \in 1..Len(opts.ageBands) :
                          age >= opts.ageBands[i].min /\ age <= opts.ageBands[i].max
                 ELSE IF opts.ageRange.given
                      THEN ~(opts.ageRange.min # Undefined /\ age < opts.ageRange.min[1])
                           /\ ~(opts.ageRange.max # Undefined /\ age > opts.ageRange.max[1])
                      ELSE TRUE
         IN IF ~ageOk THEN FALSE
            ELSE IF opts.skillRange.min # Undefined /\ m.skillLevel < opts.skillRange.min[1]
                 THEN FALSE
            ELSE IF opts.skillRange.max # Undefined /\ m.skillLevel > opts.skillRange.max[1]
                 THEN FALSE
            ELSE rulesPass(m, opts.customRules)

\* the callback of members.filter
keepMember(m, opts) ==
    IF ~opts.genderFilter[m.gender] THEN FALSE
    ELSE LET age == ageOf(m)
             ageOk ==
                 IF Len(opts.ageBands) > 0
                 THEN \E i \in 1..Len(opts.ageBands) :
                          age >= opts.ageBands[i].min /\ age <= opts.ageBands[i].max
                 ELSE IF opts.ageRange.given
                      THEN ~(opts.ageRange.min # Undefined /\ age < opts.ageRange.min[1])
                           /\ ~(opts.ageRange.max # Undefined /\ age > opts.ageRange.max[1])
                      ELSE TRUE
         IN IF ~ageOk THEN FALSE
            ELSE IF opts.skillRange.min # Undefined /\ m.skillLevel < opts.skillRange.min[1]
                 THEN FALSE
            ELSE IF opts.skillRange.max # Undefined /\ m.skillLevel > opts.skillRange.max[1]
                 THEN FALSE
            ELSE rulesPass(m, opts.customRules)

applyFiltersButFirst(ms, opts) ==
    LET kept == SelectSeq(ms, LAMBDA m : keepMember(m, opts))
    IN IF Len(kept) > 0 THEN Tail(kept) ELSE kept

applyFilters(ms, opts) == SelectSeq(ms, LAMBDA m : keepMember(m, opts))

-----------------------------------------------------------------------------
(* components/TeamGenerator.tsx: the filter/clamp effect and the slider *)

AllGenders == [g \in Genders |-> TRUE]

\* keys of the object built by reduce: genders in order of first appearance
RECURSIVE genderKeys(_, _)
genderKeys(ms, acc) ==
    IF ms = <<>> THEN acc
    ELSE genderKeys(Tail(ms),
                    IF \E i \in 1..Len(acc) : acc[i] = Head(ms).gender
                    THEN acc ELSE Append(acc, Head(ms).gender))

\* Object.entries(membersByGender).filter(([_, members]) => members.length > 0)
genderEntries(ms) ==
    LET keys == genderKeys(ms, <<>>)
        entries == [i \in 1..Len(keys) |->
                       [gender |-> keys[i],
                        members |-> SelectSeq(ms, LAMBDA m : m.gender = keys[i])]]
    IN SelectSeq(entries, LAMBDA e : Len(e.members) > 0)

clampDivisor(rule) == IF rule = "conservative" THEN 2 ELSE 1

effectClampRangeBaseMax(filtered, mode, rule) ==
    LET divisor == clampDivisor(rule)
        minTeamsNeeded ==
            IF mode = "separated"
            THEN Len(SelectSeq(genderKeys(filtered, <<>>),
                               LAMBDA g : \E i \in 1..Len(filtered) : filtered[i].gender = g))
            ELSE 2
        baseMax == Max2(ClampFloor, Min2(ClampCeiling, Len(filtered) \div divisor))
        adjustedMin == Max2(ClampFloor, minTeamsNeeded)
    IN [min |-> adjustedMin, max |-> baseMax]

\* adjustedMin / adjustedMax as the effect computes them from `filtered`
effectClampRange(filtered, mode, rule) ==
    LET divisor == clampDivisor(rule)
        minTeamsNeeded ==
            IF mode = "separated"
            THEN Len(SelectSeq(genderKeys(filtered, <<>>),
                               LAMBDA g : \E i \in 1..Len(filtered) : filtered[i].gender = g))
            ELSE 2
        baseMax == Max2(ClampFloor, Min2(ClampCeiling, Len(filtered) \div divisor))
        adjustedMin == Max2(ClampFloor, minTeamsNeeded)
        adjustedMax == Max2(adjustedMin, baseMax)
    IN [min |-> adjustedMin, max |-> adjustedMax]

\* min / max attributes of the Number of Teams slider, from the filteredMembers state
sliderRange(fm, mode, rule) ==
    LET minTeamsNeeded ==
            IF mode = "separated"
            THEN Len(SelectSeq(genderKeys(fm, <<>>),
                               LAMBDA g : \E i \in 1..Len(fm) : fm[i].gender = g))
            ELSE 2
        baseMax == Max2(ClampFloor,
                        Min2(ClampCeiling,
                             Len(fm) \div (IF rule = "conservative" THEN 2 ELSE 1)))
        adjustedMin == Max2(ClampFloor, minTeamsNeeded)
        adjustedMax == Max2(adjustedMin, baseMax)
    IN [min |-> adjustedMin, max |-> adjustedMax]

\* the options object handed to applyFilters by the effect; the age bands,
\* the skill range and the custom rules stay at their initial (empty) values
effectFilterOpts(gf) ==
    [genderFilter |-> gf, ageBands |-> <<>>,
     ageRange |-> [given |-> FALSE, min |-> Undefined, max |-> Undefined],
     skillRange |-> [min |-> Undefined, max |-> Undefined],
     customRules |-> <<>>]

-----------------------------------------------------------------------------
(* components/TeamGenerator.tsx: generateTeams after its delay *)

\* Order of (k / total) * remaining - floor among allocations whose exact
\* remainders are equal: the double-precision results differ in the last
\* places for these (k, total, remaining); everywhere else in total <= 10,
\* remaining <= 7 equal exact remainders are equal doubles.
FpSkewTable ==
    {<<1, 6, 2, 1>>, <<4, 6, 2, 0>>, <<2, 6, 2, 0>>, <<5, 6, 2, 1>>, <<2, 6, 4, 0>>,
     <<5, 6, 4, 1>>, <<1, 6, 4, 1>>, <<4, 6, 4, 0>>, <<1, 9, 3, 1>>, <<4, 9, 3, 0>>,
     <<7, 9, 3, 2>>, <<2, 9, 3, 1>>, <<5, 9, 3, 2>>, <<8, 9, 3, 0>>, <<2, 9, 6, 1>>,
     <<5, 9, 6, 2>>, <<8, 9, 6, 0>>, <<1, 9, 6, 1>>, <<4, 9, 6, 0>>, <<7, 9, 6, 2>>,
     <<1, 10, 2, 1>>, <<6, 10, 2, 0>>, <<2, 10, 2, 1>>, <<7, 10, 2, 0>>, <<3, 10, 2, 0>>,
     <<8, 10, 2, 1>>, <<3, 10, 4, 0>>, <<8, 10, 4, 1>>, <<1, 10, 4, 1>>, <<6, 10, 4, 0>>,
     <<2, 10, 4, 1>>, <<7, 10, 4, 0>>, <<2, 10, 6, 1>>, <<7, 10, 6, 0>>, <<1, 10, 6, 1>>,
     <<6, 10, 6, 0>>, <<3, 10, 6, 0>>, <<8, 10, 6, 1>>}

FpSkew(k, total, remaining) ==
    IF \E e \in FpSkewTable : e[1] = k /\ e[2] = total /\ e[3] = remaining
    THEN (CHOOSE e \in FpSkewTable : e[1] = k /\ e[2] = total /\ e[3] = remaining)[4]
    ELSE 0

\* variant: the base allocation is rounded instead of floored
remainderDataRounded(entries, totalMembers, remainingTeams) ==
    [i \in 1..Len(entries) |->
        LET k == Len(entries[i].members)
        IN [gender |-> entries[i].gender,
            baseAllocation |-> RoundDiv(k * remainingTeams, totalMembers),
            remainder |-> <<(k * remainingTeams) % totalMembers,
                            FpSkew(k, totalMembers, remainingTeams)>>]]

\* remainderData: exactAllocation = (members.length / totalMembers) * remainingTeams;
\* the remainder is kept as its numerator over totalMembers plus the skew above
remainderData(entries, totalMembers, remainingTeams) ==
    [i \in 1..Len(entries) |->
        LET k == Len(entries[i].members)
        IN [gender |-> entries[i].gender,
            baseAllocation |-> (k * remainingTeams) \div totalMembers,
            remainder |-> <<(k * remainingTeams) % totalMembers,
                            FpSkew(k, totalMembers, remainingTeams)>>]]

\* b.remainder - a.remainder <= 0: a does not sort after b
RemainderGeq(a, b) == a[1] > b[1] \/ (a[1] = b[1] /\ a[2] >= b[2])

\* remainderData.slice().sort((a, b) => b.remainder - a.remainder): stable
RECURSIVE insertByRemainder(_, _)
insertByRemainder(sorted, d) ==
    IF sorted = <<>> THEN <<d>>
    ELSE IF RemainderGeq(Head(sorted).remainder, d.remainder)
         THEN <<Head(sorted)>> \o insertByRemainder(Tail(sorted), d)
         ELSE <<d>> \o sorted

RECURSIVE sortByRemainder(_)
sortByRemainder(ds) ==
    IF ds = <<>> THEN <<>>
    ELSE insertByRemainder(sortByRemainder(SubSeq(ds, 1, Len(ds) - 1)), ds[Len(ds)])

SumBase(ds) == LET RECURSIVE S(_)
                   S(i) == IF i = 0 THEN 0 ELSE ds[i].baseAllocation + S(i - 1)
               IN S(Len(ds))

\* variant: the leftover teams are never handed out
genderAllocationsNoLeftover(entries, totalMembers, requestedTeams) ==
    LET minTeamsNeeded == Len(entries)
        remainingTeams == requestedTeams - minTeamsNeeded
        data == remainderData(entries, totalMembers, remainingTeams)
    IN [i \in 1..Len(entries) |->
           [gender |-> entries[i].gender,
            members |-> entries[i].members,
            finalAllocation |->
                IF remainingTeams > 0 THEN 1 + data[i].baseAllocation ELSE 1]]

\* genderAllocations after min-1 seeding and the largest-remainder distribution
genderAllocations(entries, totalMembers, requestedTeams) ==
    LET minTeamsNeeded == Len(entries)
        remainingTeams == requestedTeams - minTeamsNeeded
        data == remainderData(entries, totalMembers, remainingTeams)
        leftover == remainingTeams - SumBase(data)
        sortedByRemainder == sortByRemainder(data)
        extra(g) == IF leftover > 0
                       /\ \E i \in 1..Min2(leftover, Len(sortedByRemainder)) :
                              sortedByRemainder[i].gender = g
                    THEN 1 ELSE 0
    IN [i \in 1..Len(entries) |->
           [gender |-> entries[i].gender,
            members |-> entries[i].members,
            finalAllocation |->
                IF remainingTeams > 0
                THEN 1 + data[i].baseAllocation + extra(entries[i].gender)
                ELSE 1]]

SumAllocations(allocs) == LET RECURSIVE S(_)
                              S(i) == IF i = 0 THEN 0
                                      ELSE allocs[i].finalAllocation + S(i - 1)
                          IN S(Len(allocs))

generationOutcomeUnnamed(c, draws) ==
    IF c.genderMode = "separated"
    THEN LET entries == genderEntries(c.filteredMembers)
             totalMembers == Len(c.filteredMembers)
             minTeamsNeeded == Len(entries)
             requestedTeams == c.generationOptions.numberOfTeams
         IN IF requestedTeams < minTeamsNeeded
            THEN [blocked |-> TRUE,
                  alert |-> <<[requested |-> requestedTeams, needed |-> minTeamsNeeded]>>,
                  consoleError |-> FALSE, allocations |-> <<>>, newTeams |-> <<>>]
            ELSE LET allocs == genderAllocations(entries, totalMembers, requestedTeams)
                     verifyTotal == SumAllocations(allocs)
                     genderTeams(a) ==
                         LET made == generateTeams(a.members,
                                         [c.generationOptions EXCEPT
                                             !.type = "balanced",
                                             !.numberOfTeams = a.finalAllocation],
                                         draws)
                         IN [i \in 1..Len(made) |->
                                made[i]]
                 IN [blocked |-> FALSE, alert |-> <<>>,
                     consoleError |-> (verifyTotal # requestedTeams),
                     allocations |-> [i \in 1..Len(allocs) |->
                                         [gender |-> allocs[i].gender,
                                          finalAllocation |-> allocs[i].finalAllocation]],
                     newTeams |-> Concat([i \in 1..Len(allocs) |-> genderTeams(allocs[i])])]
    ELSE [blocked |-> FALSE, alert |-> <<>>, consoleError |-> FALSE,
          allocations |-> <<>>,
          newTeams |-> generateTeams(c.filteredMembers, c.generationOptions, draws)]

\* the body of generateTeams that runs after the delay, on the values its
\* render closed over (c.filteredMembers, c.genderMode, c.generationOptions)
generationOutcome(c, draws) ==
    IF c.genderMode = "separated"
    THEN LET entries == genderEntries(c.filteredMembers)
             totalMembers == Len(c.filteredMembers)
             minTeamsNeeded == Len(entries)
             requestedTeams == c.generationOptions.numberOfTeams
         IN IF requestedTeams < minTeamsNeeded
            THEN [blocked |-> TRUE,
                  alert |-> <<[requested |-> requestedTeams, needed |-> minTeamsNeeded]>>,
                  consoleError |-> FALSE, allocations |-> <<>>, newTeams |-> <<>>]
            ELSE LET allocs == genderAllocations(entries, totalMembers, requestedTeams)
                     verifyTotal == SumAllocations(allocs)
                     genderTeams(a) ==
                         LET made == generateTeams(a.members,
                                         [c.generationOptions EXCEPT
                                             !.type = "balanced",
                                             !.numberOfTeams = a.finalAllocation],
                                         draws)
                         IN [i \in 1..Len(made) |->
                                [made[i] EXCEPT !.name.prefix = a.gender]]
                 IN [blocked |-> FALSE, alert |-> <<>>,
                     consoleError |-> (verifyTotal # requestedTeams),
                     allocations |-> [i \in 1..Len(allocs) |->
                                         [gender |-> allocs[i].gender,
                                          finalAllocation |-> allocs[i].finalAllocation]],
                     newTeams |-> Concat([i \in 1..Len(allocs) |-> genderTeams(allocs[i])])]
    ELSE [blocked |-> FALSE, alert |-> <<>>, consoleError |-> FALSE,
          allocations |-> <<>>,
          newTeams |-> generateTeams(c.filteredMembers, c.generationOptions, draws)]

-----------------------------------------------------------------------------
(* Calls of the TeamBalancer entry points and of the component's generation
   body on drawn arguments *)

NoCall == [kind |-> "none"]

Options(type, n, ageRange, skillRange) ==
    [type |-> type, numberOfTeams |-> n, ageRange |-> ageRange, skillRange |-> skillRange]

DrawnAgeRanges == {Range(12, 17), Range(18, 25)}
DrawnSkillRanges == {Range(1, 1), Range(2, MaxSkillLevel)}

BalancerOptions ==
    {Options(t, n, NoRange, NoRange) : t \in {"balanced", "female", "male"}, n \in 1..MaxTeams}
    \cup {Options("age", n, r, NoRange) : n \in 1..MaxTeams, r \in DrawnAgeRanges \cup {NoRange}}
    \cup {Options("skill", n, NoRange, r) : n \in 1..MaxTeams, r \in DrawnSkillRanges \cup {NoRange}}

\* the random draws a call of generateTeams consumes
DrawsFor(ms, options) ==
    IF options.type = "balanced" THEN {<<>>}
    ELSE DrawSeqs(Len(preFilter(ms, options)))

\* nothing of the roster, the selection store or the attendance screen is in use
selectionIdle ==
    /\ selectedLocationIds = <<>>
    /\ selectedGroupIds = <<>>
    /\ selectedMemberIds = <<>>

presenceIdle ==
    /\ presenceByMemberId = <<>>
    /\ presenceTimer = <<>>
    /\ timers = <<>>
    /\ error = ""
    /\ presenceCalls = <<>>

rosterIdle ==
    /\ locations = <<>>
    /\ storage = <<>>
    /\ thrown = ""
    /\ clock = 0
    /\ selectionIdle
    /\ presenceIdle

uiIdle ==
    /\ attendancePool = <<>>
    /\ filteredMembers = <<>>
    /\ genderFilter = AllGenders
    /\ genderMode = "mixed"
    /\ generationOptions = Options("balanced", 2, NoRange, NoRange)
    /\ teams = <<>>
    /\ isGenerating = FALSE
    /\ alerts = <<>>
    /\ pending = <<>>
    /\ effectDue = FALSE
    /\ effectRange = [min |-> ClampFloor, max |-> ClampFloor]
    /\ teamClampRule = "conservative"

InitBalancer ==
    /\ members \in BalancerPools
    /\ ret = NoCall
    /\ uiIdle
    /\ rosterIdle

CallGenerateTeams ==
    /\ ret.kind = "none"
    /\ \E options \in BalancerOptions :
          /\ options.type # "balanced" => Len(members) <= MaxShuffle
          /\ \E draws \in DrawsFor(members, options) :
                ret' = [kind |-> "generateTeams", options |-> options,
                        teams |-> generateTeams(members, options, draws)]
    /\ UNCHANGED <<members, uiVars, rosterVars>>

\* the component's generateTeams in separated mode, whatever team type is
\* selected: it returns at once for fewer than two members, and the team
\* count it holds is never below 2
CallGenerateSeparated ==
    /\ ret.kind = "none"
    /\ Len(members) >= 2
    /\ \E n \in ClampFloor..MaxRequested, type \in TeamTypes :
          LET out == generationOutcome(
                         [filteredMembers |-> members, genderMode |-> "separated",
                          generationOptions |-> Options(type, n, NoRange, NoRange)],
                         <<>>)
          IN ret' = [kind |-> "separated", requestedTeams |-> n, selectedType |-> type,
                     blocked |-> out.blocked,
                     alert |-> out.alert, consoleError |-> out.consoleError,
                     allocations |-> out.allocations, teams |-> out.newTeams]
    /\ UNCHANGED <<members, uiVars, rosterVars>>

\* the caller takes the result; the next call starts from nothing
Return ==
    /\ ret.kind # "none"
    /\ ret' = NoCall
    /\ UNCHANGED <<members, uiVars, rosterVars>>

NextBalancer == CallGenerateTeams \/ CallGenerateSeparated \/ Return

SpecBalancer == InitBalancer /\ [][NextBalancer]_vars

-----------------------------------------------------------------------------
(* Properties of the balancer and of the gender-separated allocation *)

MemberIds(ms) == {ms[i].id : i \in 1..Len(ms)}

\* every member of pool sits at exactly one place of the teams, and the
\* teams hold nobody else
PlacedExactlyOnce(pool, ts) ==
    LET places == {<<t, k>> \in (1..Len(ts)) \X (1..Len(pool)) : k <= Len(ts[t].members)}
        TeamSizes == LET RECURSIVE S(_)
                         S(t) == IF t = 0 THEN 0 ELSE Len(ts[t].members) + S(t - 1)
                     IN S(Len(ts))
    IN /\ TeamSizes = Len(pool)
       /\ \A i \in 1..Len(pool) :
             Cardinality({pl \in places : ts[pl[1]].members[pl[2]] = pool[i]}) = 1
       /\ \A t \in 1..Len(ts) : \A k \in 1..Len(ts[t].members) :
             \E i \in 1..Len(pool) : pool[i] = ts[t].members[k]

\* C1 (conservation): after generateTeams in balanced or random mode the
\* people of the pre-filtered pool, and after a gender-separated generation
\* the people of the filtered pool, are each placed in exactly one returned
\* team; the team sizes add up to the size of that pool and nobody else is
\* placed.
C1_Conservation ==
    /\ (ret.kind = "generateTeams" /\ preFilter(members, ret.options) # <<>>)
          => PlacedExactlyOnce(preFilter(members, ret.options), ret.teams)
    /\ (ret.kind = "generateTeams" /\ preFilter(members, ret.options) = <<>>)
          => ret.teams = <<>>
    /\ (ret.kind = "separated" /\ ~ret.blocked)
          => PlacedExactlyOnce(members, ret.teams)

\* a random-mode call whose pre-filter kept all three people and which dealt
\* them over two teams in an order other than the pool's
C1_Witness ==
    /\ ret.kind = "generateTeams"
    /\ ret.options.type = "female"
    /\ ret.options.numberOfTeams = 2
    /\ Len(preFilter(members, ret.options)) = 3
    /\ Len(ret.teams) = 2
    /\ ret.teams[1].members[1] = members[3]

\* C2 (balance invariant): in balanced mode with M people and N <= M teams
\* every returned team has floor(M/N) or ceil(M/N) members.
C2_Balance ==
    (ret.kind = "generateTeams" /\ ret.options.type = "balanced"
        /\ Len(members) >= 1 /\ ret.options.numberOfTeams <= Len(members))
    => LET M == Len(members)
           N == ret.options.numberOfTeams
       IN \A t \in 1..Len(ret.teams) :
             Len(ret.teams[t].members) \in {M \div N, (M + N - 1) \div N}

\* four people drafted into three teams: the draft has turned round once
C2_Witness ==
    /\ ret.kind = "generateTeams"
    /\ ret.options.type = "balanced"
    /\ ret.options.numberOfTeams = 3
    /\ Len(members) = 4
    /\ Len(ret.teams[3].members) = 2

\* C3 (apportionment exactness): whenever the separated generation is not
\* blocked (requestedTeams >= represented genders) the final allocations add
\* up to requestedTeams and the "Team allocation error" is not logged.
C3_Apportionment ==
    (ret.kind = "separated" /\ ~ret.blocked)
    => /\ SumAllocations(ret.allocations) = ret.requestedTeams
       /\ ~ret.consoleError

\* two genders, three of four people of the first one, four teams: of the
\* two remaining teams one comes from the floors and one is left over for the
\* largest remainder
C3_Witness ==
    /\ ret.kind = "separated"
    /\ ~ret.blocked
    /\ ret.requestedTeams = 4
    /\ Len(ret.allocations) = 2
    /\ Len(members) = 4
    /\ genderCount(members, members[1].gender) = 3

\* C4: an unblocked separated generation returns exactly requestedTeams
\* teams, at least one for each represented gender, hence never fewer teams
\* than represented genders.
C4_SeparatedTeamCount ==
    (ret.kind = "separated" /\ ~ret.blocked)
    => LET represented == {members[i].gender : i \in 1..Len(members)}
       IN /\ Len(ret.teams) = ret.requestedTeams
          /\ \A g \in represented :
                \E t \in 1..Len(ret.teams) : ret.teams[t].name.prefix = g
          /\ Len(ret.teams) >= Cardinality(represented)

\* three genders and four requested teams
C4_Witness ==
    /\ ret.kind = "separated"
    /\ ~ret.blocked
    /\ ret.requestedTeams = 4
    /\ Cardinality({members[i].gender : i \in 1..Len(members)}) = 3
    /\ Len(ret.teams) = 4

\* what the pre-filter is meant to keep: gender for the single-gender types, the
\* inclusive skill range, and the inclusive age range on currentYear - birthYear
IntendedPreFilter(ms, options) ==
    CASE options.type = "female" -> SelectSeq(ms, LAMBDA m : m.gender = "Female")
      [] options.type = "male" -> SelectSeq(ms, LAMBDA m : m.gender = "Male")
      [] options.type = "age" ->
            SelectSeq(ms, LAMBDA m : CurrentYear - m.birthYear >= options.ageRange.min
                                     /\ CurrentYear - m.birthYear <= options.ageRange.max)
      [] options.type = "skill" ->
            SelectSeq(ms, LAMBDA m : m.skillLevel >= options.skillRange.min
                                     /\ m.skillLevel <= options.skillRange.max)
      [] OTHER -> ms

TeamMemberIds(ts) == UNION {MemberIds(ts[t].members) : t \in 1..Len(ts)}

\* C9: generateTeams places exactly the people its type-specific pre-filter
\* is meant to keep (Female, Male, skill within the given range, age =
\* currentYear - birthYear within the given range), and returns no team for
\* an empty input or an empty pre-filtered pool.
C9_PreFilter ==
    (ret.kind = "generateTeams"
        /\ (ret.options.type = "age" => ret.options.ageRange.given)
        /\ (ret.options.type = "skill" => ret.options.skillRange.given))
    => /\ TeamMemberIds(ret.teams) = MemberIds(IntendedPreFilter(members, ret.options))
       /\ IntendedPreFilter(members, ret.options) = <<>> => ret.teams = <<>>

-----------------------------------------------------------------------------
(* Calls of TeamBalancer.getRandomMembers as RandomPicker makes them *)

SamplerPools ==
    {loadData(s) : s \in PoolsOver(GenderSkillProfiles \cup AgeProfiles, MaxShuffle)}

\* filterObject of pickRandomMembers
PickFilters ==
    [gender : {"", "Female"},
     ageRange : {NoRange, Range(18, 25)},
     skillRange : {NoRange, Range(2, MaxSkillLevel)}]

InitSampler ==
    /\ members \in SamplerPools
    /\ ret = NoCall
    /\ uiIdle
    /\ rosterIdle

CallGetRandomMembers ==
    /\ ret.kind = "none"
    /\ \E count \in 0..MaxCount, filters \in PickFilters :
          \E draws \in DrawSeqs(Len(pickFiltered(members, filters))) :
              ret' = [kind |-> "getRandomMembers", count |-> count, filters |-> filters,
                      picked |-> getRandomMembers(members, count, filters, draws)]
    /\ UNCHANGED <<members, uiVars, rosterVars>>

NextSampler == CallGetRandomMembers \/ Return

SpecSampler == InitSampler /\ [][NextSampler]_vars

\* filter(P, F) of the sampler: the gender, the inclusive age range on
\* currentYear - birthYear and the inclusive skill range, each when given
IntendedPickFilter(ms, filters) ==
    SelectSeq(ms, LAMBDA m :
        /\ filters.gender # "" => m.gender = filters.gender
        /\ filters.ageRange.given =>
              /\ CurrentYear - m.birthYear >= filters.ageRange.min
              /\ CurrentYear - m.birthYear <= filters.ageRange.max
        /\ filters.skillRange.given =>
              /\ m.skillLevel >= filters.skillRange.min
              /\ m.skillLevel <= filters.skillRange.max)

\* C8 (sampler bound): getRandomMembers returns min(count, |filter(P, F)|)
\* people, all distinct and all of filter(P, F), the age of F being
\* currentYear - birthYear.
C8_SamplerBound ==
    ret.kind = "getRandomMembers"
    => LET eligible == IntendedPickFilter(members, ret.filters)
       IN /\ Len(ret.picked) = Min2(ret.count, Len(eligible))
          /\ \A i, j \in 1..Len(ret.picked) : ret.picked[i] = ret.picked[j] => i = j
          /\ MemberIds(ret.picked) \subseteq MemberIds(eligible)

-----------------------------------------------------------------------------
(* Calls of applyFilters *)

\* people handed to applyFilters: each gender, skills 1..3, ages 10, 15 and
\* 20, and a jersey attribute that is absent, a number, a string or a boolean
FilterProfiles ==
    {<<"Female", 1, 20, VUndef>>, <<"Male", 2, 20, VNum(7)>>,
     <<"Other", 1, 15, VStr(<<"A", "b">>)>>, <<"Male", 3, 10, VNum(12)>>,
     <<"Female", 2, 15, VBool(TRUE)>>, <<"Male", 1, 20, VStr(<<"7">>)>>}

FilterPools ==
    UNION {{[i \in 1..n |->
                [loadData(<<StoredMember(i, p[i][1], p[i][2], CurrentYear - p[i][3])>>)[1]
                     EXCEPT !.attrs = [k \in AttrKeys |-> p[i][4]]]] :
               p \in [1..n -> FilterProfiles]} : n \in 0..MaxFilterPool}

Band(lo, hi) == [min |-> lo, max |-> hi]
NoLegacyRange == [given |-> FALSE, min |-> Undefined, max |-> Undefined]
LegacyRange(lo, hi) == [given |-> TRUE, min |-> lo, max |-> hi]
Rule(key, op, value) == [key |-> key, op |-> op, value |-> value]

DrawnGenderFilters ==
    {AllGenders, [AllGenders EXCEPT !["Female"] = FALSE],
     [g \in Genders |-> g = "Other"]}
DrawnAgeBands == {<<>>, <<Band(8, 12), Band(18, 25)>>, <<Band(13, 17)>>}
DrawnLegacyRanges ==
    {NoLegacyRange, LegacyRange(Num(13), Num(17)), LegacyRange(Num(18), Undefined)}
DrawnFilterSkillRanges ==
    {[min |-> Undefined, max |-> Undefined], [min |-> Num(2), max |-> Undefined],
     [min |-> Undefined, max |-> Num(2)], [min |-> Num(2), max |-> Num(3)]}
DrawnRuleLists ==
    {<<>>,
     <<Rule("jersey", "gte", VNum(7))>>,
     <<Rule("jersey", "equals", VNum(7))>>,
     <<Rule("jersey", "contains", VStr(<<"a">>))>>,
     <<Rule("jersey", "in", VList(<<(<<"A", "b">>), (<<"7">>)>>))>>,
     <<Rule("jersey", "lte", VStr(<<"7">>)), Rule("jersey", "is", VBool(TRUE))>>,
     <<Rule("jersey", "is", VBool(TRUE)), Rule("jersey", "gte", VNum(12))>>,
     <<Rule("jersey", "matches", VStr(<<"A">>))>>}

\* rules whose op is none of equals, contains, gte, lte, in, is
UnknownRules ==
    {Rule("jersey", "matches", VStr(<<"A">>)), Rule("jersey", "gt", VNum(7)),
     Rule("jersey", "", VUndef)}

FilterOpts ==
    [genderFilter : DrawnGenderFilters, ageBands : DrawnAgeBands,
     ageRange : DrawnLegacyRanges, skillRange : DrawnFilterSkillRanges,
     customRules : DrawnRuleLists]

InitFilters ==
    /\ members \in FilterPools
    /\ ret = NoCall
    /\ uiIdle
    /\ rosterIdle

CallApplyFilters ==
    /\ ret.kind = "none"
    /\ \E opts \in FilterOpts :
          ret' = [kind |-> "applyFilters", opts |-> opts,
                  out |-> applyFilters(members, opts),
                  again |-> applyFilters(applyFilters(members, opts), opts),
                  withUnknown |->
                      [r \in UnknownRules |->
                          <<applyFilters(members,
                                [opts EXCEPT !.customRules = Append(@, r)]),
                            applyFilters(members,
                                [opts EXCEPT !.customRules = <<r>> \o @])>>]]
    /\ UNCHANGED <<members, uiVars, rosterVars>>

NextFilters == CallApplyFilters \/ Return

SpecFilters == InitFilters /\ [][NextFilters]_vars

\* the age predicate: some band when bands are given, else the legacy range
\* when one is given, else everybody
AgePredicate(m, opts) ==
    LET age == CurrentYear - m.birthYear
    IN IF opts.ageBands # <<>>
       THEN \E i \in DOMAIN opts.ageBands :
                opts.ageBands[i].min <= age /\ age <= opts.ageBands[i].max
       ELSE opts.ageRange.given =>
                /\ opts.ageRange.min # Undefined => opts.ageRange.min[1] <= age
                /\ opts.ageRange.max # Undefined => age <= opts.ageRange.max[1]

\* the conjunction of the four predicates
Matches(m, opts) ==
    /\ opts.genderFilter[m.gender]
    /\ AgePredicate(m, opts)
    /\ opts.skillRange.min # Undefined => m.skillLevel >= opts.skillRange.min[1]
    /\ opts.skillRange.max # Undefined => m.skillLevel <= opts.skillRange.max[1]
    /\ \A i \in DOMAIN opts.customRules : rulePass(m, opts.customRules[i])

\* position in ms of the k-th person of ms that matches
KthMatch(ms, opts, k) ==
    CHOOSE i \in DOMAIN ms :
        /\ Matches(ms[i], opts)
        /\ Cardinality({j \in 1..i : Matches(ms[j], opts)}) = k

\* C6: applyFilters returns exactly the people of its input that satisfy the
\* conjunction of the gender, age and skill predicates and of every custom
\* rule, in their original relative order (so nobody when nobody matches, and
\* everybody under an all-true gender map with no other filter).
C6_FilterConjunction ==
    ret.kind = "applyFilters"
    => /\ Len(ret.out) = Cardinality({i \in DOMAIN members : Matches(members[i], ret.opts)})
       /\ \A k \in DOMAIN ret.out : ret.out[k] = members[KthMatch(members, ret.opts, k)]

\* two rules, a gender switched off and a skill bound: of two people that
\* pass the gender, age and skill tests only the second passes both rules
C6_Witness ==
    /\ ret.kind = "applyFilters"
    /\ Len(members) = 2
    /\ Len(ret.opts.customRules) = 2
    /\ ~ret.opts.genderFilter["Female"]
    /\ ret.opts.skillRange.min # Undefined
    /\ \A i \in 1..2 : /\ ret.opts.genderFilter[members[i].gender]
                       /\ members[i].skillLevel >= ret.opts.skillRange.min[1]
    /\ rulePass(members[1], ret.opts.customRules[1])
    /\ ~rulePass(members[1], ret.opts.customRules[2])
    /\ ret.out = <<members[2]>>

\* the filters of a call other than the age filter remove nobody
OnlyAgeFilter(opts) ==
    /\ opts.genderFilter = AllGenders
    /\ opts.skillRange = [min |-> Undefined, max |-> Undefined]
    /\ opts.customRules = <<>>

\* C7: with a non-empty list of age bands a person passes the age test iff
\* currentYear - birthYear lies in the inclusive range of at least one band,
\* whatever the legacy range says; with no band and a legacy range the single
\* inclusive range decides; with neither nobody is removed by age.
C7_AgeBands ==
    ret.kind = "applyFilters"
    => /\ \A k \in DOMAIN ret.out : AgePredicate(ret.out[k], ret.opts)
       /\ OnlyAgeFilter(ret.opts)
          => MemberIds(ret.out) =
                 {members[i].id : i \in {j \in DOMAIN members :
                                            AgePredicate(members[j], ret.opts)}}
       /\ (OnlyAgeFilter(ret.opts) /\ ret.opts.ageBands = <<>> /\ ~ret.opts.ageRange.given)
          => ret.out = members

\* bands 8-12 and 18-25 next to a legacy range of 13-17: the person aged 15
\* is removed and the person aged 20 is kept
C7_Witness ==
    /\ ret.kind = "applyFilters"
    /\ OnlyAgeFilter(ret.opts)
    /\ ret.opts.ageBands = <<Band(8, 12), Band(18, 25)>>
    /\ ret.opts.ageRange = LegacyRange(Num(13), Num(17))
    /\ Len(members) = 2
    /\ CurrentYear - members[1].birthYear = 15
    /\ CurrentYear - members[2].birthYear = 20
    /\ ret.out = <<members[2]>>

-----------------------------------------------------------------------------
(* The clamp of the effect and of the slider on drawn filtered pools *)

\* sequences of distinct genders
GenderPatterns ==
    {p \in UNION {[1..n -> Genders] : n \in 1..3} :
        \A i, j \in DOMAIN p : p[i] = p[j] => i = j}

\* a filtered pool of n people whose genders repeat the pattern
PatternPool(n, p) ==
    loadData([i \in 1..n |->
                 StoredMember(i, p[((i - 1) % Len(p)) + 1], 1, CurrentYear - 20)])

ClampPools == {PatternPool(n, p) : n \in 0..MaxClampPool, p \in GenderPatterns}

InitClamp ==
    /\ members \in ClampPools
    /\ ret = NoCall
    /\ uiIdle
    /\ rosterIdle

\* one render of the component over `members` as the filtered pool: the
\* effect's range and the range the slider is drawn with
CallClamp ==
    /\ ret.kind = "none"
    /\ \E mode \in {"mixed", "separated"}, rule \in {"conservative", "relaxed"} :
          ret' = [kind |-> "clamp", mode |-> mode, rule |-> rule,
                  effect |-> effectClampRange(members, mode, rule),
                  slider |-> sliderRange(members, mode, rule)]
    /\ UNCHANGED <<members, uiVars, rosterVars>>

NextClamp == CallClamp \/ Return

SpecClamp == InitClamp /\ [][NextClamp]_vars

\* the Constraint Clamp as specified
SpecifiedRange(poolSize, rule, mode, representedGenderCount) ==
    LET divisor == IF rule = "conservative" THEN 2 ELSE 1
        floorDiv == CHOOSE q \in 0..poolSize : q * divisor <= poolSize
                                               /\ poolSize < (q + 1) * divisor
        baseMax == Max2(2, Min2(8, floorDiv))
        lo == IF mode = "separated" THEN Max2(2, representedGenderCount) ELSE 2
    IN [min |-> lo, max |-> IF mode = "separated" THEN Max2(lo, baseMax) ELSE baseMax]

RepresentedGenders(ms) == {ms[i].gender : i \in DOMAIN ms}

\* C10 (Constraint Clamp): the range of the effect is the specified one for
\* the pool size, the divisor policy, the gender mode and the number of
\* represented genders; 2 <= min <= max <= 8; a pool of 0 or 1 reports
\* max 2; the slider is drawn with the same range.
C10_ConstraintClamp ==
    ret.kind = "clamp"
    => /\ ret.effect = SpecifiedRange(Len(members), ret.rule, ret.mode,
                                      Cardinality(RepresentedGenders(members)))
       /\ 2 <= ret.effect.min /\ ret.effect.min <= ret.effect.max /\ ret.effect.max <= 8
       /\ Len(members) <= 1 => ret.effect.max = 2
       /\ ret.slider = ret.effect

\* three genders among three people under the conservative policy: the
\* base maximum 2 is lifted to the minimum 3
C10_Witness ==
    /\ ret.kind = "clamp"
    /\ ret.mode = "separated" /\ ret.rule = "conservative"
    /\ Len(members) = 3
    /\ Cardinality(RepresentedGenders(members)) = 3
    /\ ret.effect = [min |-> 3, max |-> 3]

-----------------------------------------------------------------------------
(* The TeamGenerator component: filters, clamp effect and generation *)

\* attendance pools: one to MaxUIPool people whose genders go round the three
UIPools == {PatternPool(n, <<"Male", "Female", "Other">>) : n \in 0..MaxUIPool}

\* the gender checkboxes the user works
ToggledGenders == {"Other"}

\* the component once the attendance pool has been set and before the
\* filter effect has run on it
InitUI ==
    /\ members = <<>>
    /\ ret = NoCall
    /\ attendancePool \in UIPools
    /\ filteredMembers = <<>>
    /\ genderFilter = AllGenders
    /\ genderMode = "mixed"
    /\ generationOptions = Options("balanced", 2, NoRange, NoRange)
    /\ teams = <<>>
    /\ isGenerating = FALSE
    /\ alerts = <<>>
    /\ pending = <<>>
    /\ effectDue = TRUE
    /\ effectRange = [min |-> ClampFloor, max |-> ClampFloor]
    /\ teamClampRule \in {"conservative", "relaxed"}
    /\ rosterIdle

\* a gender checkbox of the filter panel
ToggleGender ==
    /\ \E g \in ToggledGenders : genderFilter' = [genderFilter EXCEPT ![g] = ~@]
    /\ effectDue' = TRUE
    /\ UNCHANGED <<callVars, rosterVars, attendancePool, filteredMembers, genderMode, generationOptions,
                   teams, isGenerating, alerts, pending, effectRange, teamClampRule>>

\* the Mixed / Separated radio buttons
SetGenderMode ==
    /\ \E mode \in {"mixed", "separated"} : mode # genderMode /\ genderMode' = mode
    /\ effectDue' = TRUE
    /\ UNCHANGED <<callVars, rosterVars, attendancePool, filteredMembers, genderFilter, generationOptions,
                   teams, isGenerating, alerts, pending, effectRange, teamClampRule>>

\* the Number of Teams slider, which offers the values of its range
SetNumberOfTeams ==
    /\ LET range == sliderRange(filteredMembers, genderMode, teamClampRule)
       IN \E n \in range.min..range.max :
              /\ n # generationOptions.numberOfTeams
              /\ generationOptions' = [generationOptions EXCEPT !.numberOfTeams = n]
    /\ effectDue' = TRUE
    /\ UNCHANGED <<callVars, rosterVars, attendancePool, filteredMembers, genderFilter, genderMode,
                   teams, isGenerating, alerts, pending, effectRange, teamClampRule>>

FilterEffectNoWriteBack ==
    /\ effectDue
    /\ LET filtered == applyFilters(attendancePool, effectFilterOpts(genderFilter))
           range == effectClampRange(filtered, genderMode, teamClampRule)
       IN /\ filteredMembers' = filtered
          /\ effectRange' = range
          /\ UNCHANGED generationOptions
          /\ effectDue' = FALSE
    /\ UNCHANGED <<callVars, rosterVars, attendancePool, genderFilter, genderMode, teams, isGenerating,
                   alerts, pending, teamClampRule>>

\* the filter effect: it runs again when it has changed numberOfTeams
FilterEffect ==
    /\ effectDue
    /\ LET filtered == applyFilters(attendancePool, effectFilterOpts(genderFilter))
           range == effectClampRange(filtered, genderMode, teamClampRule)
           n == generationOptions.numberOfTeams
       IN /\ filteredMembers' = filtered
          /\ effectRange' = range
          /\ IF n < range.min \/ n > range.max
             THEN /\ generationOptions' =
                        [generationOptions EXCEPT
                            !.numberOfTeams = Max2(range.min, Min2(range.max, n))]
                  /\ effectDue' = TRUE
             ELSE /\ UNCHANGED generationOptions
                  /\ effectDue' = FALSE
    /\ UNCHANGED <<callVars, rosterVars, attendancePool, genderFilter, genderMode, teams, isGenerating,
                   alerts, pending, teamClampRule>>

\* Generate Teams (disabled while generating or under two people) or
\* Regenerate (shown with the teams, never disabled): generateTeams up to its
\* await, the rest waiting for the timer with the values of this render
GenerateClick ==
    /\ (Len(filteredMembers) >= 2 /\ ~isGenerating) \/ Len(teams) > 0
    /\ Len(filteredMembers) >= 2
    /\ Len(pending) < MaxPending
    /\ isGenerating' = TRUE
    /\ pending' = Append(pending, [filteredMembers |-> filteredMembers,
                                   genderMode |-> genderMode,
                                   generationOptions |-> generationOptions])
    /\ UNCHANGED <<callVars, rosterVars, attendancePool, filteredMembers, genderFilter, genderMode,
                   generationOptions, teams, alerts, effectDue, effectRange, teamClampRule>>

GenerateCompleteStillGenerating ==
    /\ pending # <<>>
    /\ LET out == generationOutcome(Head(pending), <<>>)
       IN IF out.blocked
          THEN /\ alerts' = out.alert
               /\ UNCHANGED <<teams, isGenerating>>
          ELSE /\ teams' = out.newTeams
               /\ isGenerating' = FALSE
               /\ UNCHANGED alerts
    /\ pending' = Tail(pending)
    /\ UNCHANGED <<callVars, rosterVars, attendancePool, filteredMembers, genderFilter, genderMode,
                   generationOptions, effectDue, effectRange, teamClampRule>>

GenerateCompleteCurrentRender ==
    /\ pending # <<>>
    /\ LET out == generationOutcome([filteredMembers |-> filteredMembers,
                                     genderMode |-> genderMode,
                                     generationOptions |-> generationOptions], <<>>)
       IN IF out.blocked
          THEN /\ alerts' = out.alert
               /\ UNCHANGED teams
          ELSE /\ teams' = out.newTeams
               /\ UNCHANGED alerts
    /\ isGenerating' = FALSE
    /\ pending' = Tail(pending)
    /\ UNCHANGED <<callVars, rosterVars, attendancePool, filteredMembers, genderFilter, genderMode,
                   generationOptions, effectDue, effectRange, teamClampRule>>

\* the timer of the oldest waiting generation fires: generateTeams after
\* its await; alerts holds the alert shown by the latest generation
GenerateComplete ==
    /\ pending # <<>>
    /\ LET out == generationOutcome(Head(pending), <<>>)
       IN IF out.blocked
          THEN /\ alerts' = out.alert
               /\ UNCHANGED teams
          ELSE /\ teams' = out.newTeams
               /\ UNCHANGED alerts
    /\ isGenerating' = FALSE
    /\ pending' = Tail(pending)
    /\ UNCHANGED <<callVars, rosterVars, attendancePool, filteredMembers, genderFilter, genderMode,
                   generationOptions, effectDue, effectRange, teamClampRule>>

NextUI ==
    \/ ToggleGender
    \/ SetGenderMode
    \/ SetNumberOfTeams
    \/ FilterEffect
    \/ GenerateClick
    \/ GenerateComplete

SpecUI == InitUI /\ [][NextUI]_vars

\* the oldest waiting generation is a separated one asking for fewer teams
\* than its people have genders
BlockedRequest ==
    /\ pending # <<>>
    /\ Head(pending).genderMode = "separated"
    /\ Head(pending).generationOptions.numberOfTeams <
           Cardinality(RepresentedGenders(Head(pending).filteredMembers))

\* C5: when a separated generation asks for fewer teams than there are
\* represented genders it is blocked: nothing is allocated, the displayed
\* teams stay as they were, the alert reports the number of genders as the
\* required minimum, and isGenerating is false afterwards.
C5_BlockedGeneration ==
    [][(BlockedRequest /\ pending' = Tail(pending))
       => /\ generationOutcome(Head(pending), <<>>).allocations = <<>>
          /\ teams' = teams
          /\ alerts' = <<[requested |-> Head(pending).generationOptions.numberOfTeams,
                          needed |-> Cardinality(RepresentedGenders(
                                         Head(pending).filteredMembers))]>>
          /\ isGenerating' = FALSE]_vars

\* teams are on display, and a generation asking for 2 teams of people of
\* three genders has just been refused with the minimum 3
C5_Witness ==
    /\ teams # <<>>
    /\ alerts = <<[requested |-> 2, needed |-> 3]>>
    /\ genderMode = "separated"
    /\ Cardinality(RepresentedGenders(filteredMembers)) = 3
    /\ ~isGenerating
    /\ pending = <<>>

-----------------------------------------------------------------------------
(* The TeamGenerator component between generations: persisted filters
   restored on mount, the selection changing, filters, mode and slider *)

SettlePools == {PatternPool(n, <<"Male", "Female", "Other">>) : n \in 0..MaxSettlePool}

\* after the mount effects: the gender mode and the team count come from the
\* persisted filters (any values the component held when it saved them), the
\* pool from the selection; the filter effect has not yet run on them
InitRestored ==
    /\ members = <<>>
    /\ ret = NoCall
    /\ attendancePool \in SettlePools
    /\ filteredMembers = <<>>
    /\ genderFilter = AllGenders
    /\ genderMode \in {"mixed", "separated"}
    /\ \E n \in ClampFloor..ClampCeiling :
          generationOptions = Options("balanced", n, NoRange, NoRange)
    /\ teams = <<>>
    /\ isGenerating = FALSE
    /\ alerts = <<>>
    /\ pending = <<>>
    /\ effectDue = TRUE
    /\ effectRange = [min |-> ClampFloor, max |-> ClampFloor]
    /\ teamClampRule \in {"conservative", "relaxed"}
    /\ rosterIdle

\* the selection store changes: the pool effect reads the present members
\* of the new selection
SetAttendancePool ==
    /\ \E pool \in SettlePools : pool # attendancePool /\ attendancePool' = pool
    /\ effectDue' = TRUE
    /\ UNCHANGED <<callVars, rosterVars, filteredMembers, genderFilter, genderMode, generationOptions,
                   teams, isGenerating, alerts, pending, effectRange, teamClampRule>>

NextSettle ==
    \/ SetAttendancePool
    \/ ToggleGender
    \/ SetGenderMode
    \/ SetNumberOfTeams
    \/ FilterEffect

SpecSettle == InitRestored /\ [][NextSettle]_vars

\* the specified range for a filtered pool
RangeFor(filtered, mode, rule) ==
    SpecifiedRange(Len(filtered), rule, mode, Cardinality(RepresentedGenders(filtered)))

\* the people of the pool whose gender is switched on
GenderFiltered(pool, gf) == SelectSeq(pool, LAMBDA m : gf[m.gender])

C12_FilterIdempotence ==
    ret.kind = "applyFilters" => ret.again = ret.out

\* an age band, a skill bound and a rule remove the first of two people and
\* keep the second, and the second filtering keeps her again
C12_Witness ==
    /\ ret.kind = "applyFilters"
    /\ ret.opts.ageBands # <<>>
    /\ ret.opts.customRules # <<>>
    /\ ret.opts.skillRange.min # Undefined
    /\ Len(members) = 2
    /\ ret.out = <<members[2]>>
    /\ ret.again = <<members[2]>>

-----------------------------------------------------------------------------
(* The arrays the core operations read and write: `members` is the array of
   the caller, the others are the arrays the operations create *)

HeapObjects == {"members", "filteredMembers", "sortedMembers", "shuffled"}

heapOf(ms) == [o \in HeapObjects |-> IF o = "members" THEN ms ELSE <<>>]

\* const dst = [...src]
spread(heap, dst, src) == [heap EXCEPT ![dst] = heap[src]]

\* shuffleArray: the swaps go to the copy
shuffleArrayIn(heap, array, draws) ==
    LET copied == spread(heap, "shuffled", array)
    IN [copied EXCEPT !["shuffled"] = shuffleFrom(@, Len(@), draws)]

\* createBalancedTeams: Array.prototype.sort sorts the copy in place
createBalancedTeamsIn(heap, ms, numberOfTeams) ==
    LET copied == spread(heap, "sortedMembers", ms)
        sorted == [copied EXCEPT !["sortedMembers"] = sortBySkillDesc(@)]
        drafted == snakeDraft(sorted["sortedMembers"], initTeams(numberOfTeams), 0, 1,
                              numberOfTeams)
    IN [heap |-> sorted,
        out |-> [i \in 1..numberOfTeams |-> calculateTeamStats(drafted[i])]]

createRandomTeamsInBlocks(heap, ms, numberOfTeams, draws) ==
    LET shuffled == shuffleArrayIn(heap, ms, draws)
        M == Len(shuffled["shuffled"])
        block(t) == SelectSeq(shuffled["shuffled"],
                        LAMBDA m : \E i \in 0..(M - 1) :
                            /\ shuffled["shuffled"][i + 1] = m
                            /\ (i * numberOfTeams) \div M = t)
    IN [heap |-> shuffled,
        out |-> [i \in 1..numberOfTeams |->
                    calculateTeamStats([emptyTeam(i - 1) EXCEPT !.members = block(i - 1)])]]

createRandomTeamsIn(heap, ms, numberOfTeams, draws) ==
    LET shuffled == shuffleArrayIn(heap, ms, draws)
        dealt == dealRoundRobin(shuffled["shuffled"], 0, initTeams(numberOfTeams),
                                numberOfTeams)
    IN [heap |-> shuffled,
        out |-> [i \in 1..numberOfTeams |-> calculateTeamStats(dealt[i])]]

\* generateTeams: filteredMembers is a copy of members or the new array
\* that members.filter returns
generateTeamsIn(heap, options, draws) ==
    IF Len(heap["members"]) = 0 THEN [heap |-> heap, out |-> <<>>]
    ELSE LET copied == spread(heap, "filteredMembers", "members")
             filtered == [copied EXCEPT
                             !["filteredMembers"] = preFilter(copied["members"], options)]
         IN IF Len(filtered["filteredMembers"]) = 0 THEN [heap |-> filtered, out |-> <<>>]
            ELSE IF options.type = "balanced"
                 THEN createBalancedTeamsIn(filtered, "filteredMembers",
                                            options.numberOfTeams)
                 ELSE createRandomTeamsIn(filtered, "filteredMembers",
                                          options.numberOfTeams, draws)

\* getRandomMembers: a copy, then the arrays filter returns, then shuffleArray
getRandomMembersIn(heap, count, filters, draws) ==
    LET copied == spread(heap, "filteredMembers", "members")
        filtered == [copied EXCEPT
                        !["filteredMembers"] = pickFiltered(copied["filteredMembers"], filters)]
        shuffled == shuffleArrayIn(filtered, "filteredMembers", draws)
    IN [heap |-> shuffled,
        out |-> SubSeq(shuffled["shuffled"], 1, Min2(count, Len(shuffled["shuffled"])))]

applyFiltersInPlace(heap, opts) ==
    LET kept == SelectSeq(heap["members"], LAMBDA m : keepMember(m, opts))
    IN [heap |-> [heap EXCEPT !["members"] = kept], out |-> kept]

\* applyFilters: members.filter returns a new array, the callback only reads
applyFiltersIn(heap, opts) ==
    [heap |-> heap, out |-> SelectSeq(heap["members"], LAMBDA m : keepMember(m, opts))]

-----------------------------------------------------------------------------
(* Calls of the core operations, each followed by the same call again *)

CorePools ==
    FilterPools
    \cup {loadData(s) : s \in PoolsOver(AgeProfiles \cup {<<"Female", 1, CurrentYear - 20>>},
                                        MaxShuffle)}

NoFilterOpts == effectFilterOpts(AllGenders)
NoPickFilters == [gender |-> "", ageRange |-> NoRange, skillRange |-> NoRange]

CoreFilterOpts ==
    {NoFilterOpts,
     [NoFilterOpts EXCEPT !.genderFilter = [g \in Genders |-> g # "Male"]],
     [NoFilterOpts EXCEPT !.ageBands = <<Band(18, 25)>>],
     [NoFilterOpts EXCEPT !.skillRange = [min |-> Num(2), max |-> Undefined],
                          !.customRules = <<Rule("jersey", "gte", VNum(7))>>]}

CoreCall(op, opts, options, count, filters, draws) ==
    [op |-> op, opts |-> opts, options |-> options, count |-> count,
     filters |-> filters, draws |-> draws]

CoreCalls(ms) ==
    {CoreCall("applyFilters", o, Options("balanced", 1, NoRange, NoRange), 0,
              NoPickFilters, <<>>) : o \in CoreFilterOpts}
    \cup UNION {{CoreCall("generateTeams", NoFilterOpts, o, 0, NoPickFilters, d) :
                    d \in DrawsFor(ms, o)} : o \in BalancerOptions}
    \cup UNION {{CoreCall("getRandomMembers", NoFilterOpts,
                          Options("balanced", 1, NoRange, NoRange), c, f, d) :
                    c \in {1, MaxCount}, d \in DrawSeqs(Len(pickFiltered(ms, f)))} :
                 f \in PickFilters}

runCore(heap, c) ==
    CASE c.op = "applyFilters" -> applyFiltersIn(heap, c.opts)
      [] c.op = "generateTeams" -> generateTeamsIn(heap, c.options, c.draws)
      [] OTHER -> getRandomMembersIn(heap, c.count, c.filters, c.draws)

InitCore ==
    /\ members \in CorePools
    /\ ret = NoCall
    /\ uiIdle
    /\ rosterIdle

\* a call on the caller's array; members is that array after the call
CallCore ==
    /\ ret.kind = "none"
    /\ \E c \in CoreCalls(members) :
          LET r == runCore(heapOf(members), c)
          IN /\ members' = r.heap["members"]
             /\ ret' = [kind |-> "core", call |-> c, input |-> members, out |-> r.out,
                        calls |-> 1, again |-> <<>>]
    /\ UNCHANGED <<uiVars, rosterVars>>

\* the same call with the same draws on the array as the first call left it
CallCoreAgain ==
    /\ ret.kind = "core"
    /\ ret.calls = 1
    /\ LET r == runCore(heapOf(members), ret.call)
       IN /\ members' = r.heap["members"]
          /\ ret' = [ret EXCEPT !.calls = 2, !.again = r.out]
    /\ UNCHANGED <<uiVars, rosterVars>>

NextCore == CallCore \/ CallCoreAgain \/ Return

SpecCore == InitCore /\ [][NextCore]_vars

-----------------------------------------------------------------------------
(* generateTeams on longer pools of one gender and skill levels 1 to 3 *)

DraftProfiles == {"Male"} \X (1..3) \X {CurrentYear - 20}

DraftPools == {loadData(s) : s \in PoolsOver(DraftProfiles, MaxDraftPool)}

InitDraft ==
    /\ members \in DraftPools
    /\ ret = NoCall
    /\ uiIdle
    /\ rosterIdle

SpecDraft == InitDraft /\ [][NextBalancer]_vars

\* 0-based rank of the person at position i of ms when ms is ordered by skill
\* descending, ties in their original order
SkillRank(ms, i) ==
    Cardinality({j \in DOMAIN ms : ms[j].skillLevel > ms[i].skillLevel})
    + Cardinality({j \in 1..(i - 1) : ms[j].skillLevel = ms[i].skillLevel})

\* k-th element (0-based) of 0, 1, ..., N-1, N-1, ..., 1, 0, 0, 1, ...
SnakeTeam(k, N) ==
    LET r == k % (2 * N)
    IN IF r < N THEN r ELSE 2 * N - 1 - r

\* C14 (snake draft): in balanced mode the person of rank k in the order by
\* descending skill (ties in original order) sits in team SnakeTeam(k, N),
\* and the members of each team are in pick order.
C14_SnakeDraft ==
    (ret.kind = "generateTeams" /\ ret.options.type = "balanced" /\ members # <<>>)
    => LET N == ret.options.numberOfTeams
       IN \A i \in DOMAIN members :
             LET k == SkillRank(members, i)
                 t == SnakeTeam(k, N)
                 earlier == {j \in DOMAIN members :
                                /\ SkillRank(members, j) < k
                                /\ SnakeTeam(SkillRank(members, j), N) = t}
             IN /\ Len(ret.teams[t + 1].members) > Cardinality(earlier)
                /\ ret.teams[t + 1].members[Cardinality(earlier) + 1] = members[i]

\* five people, the two best tied and the last of the input the third best,
\* into two teams: picks go 0, 1, 1, 0, 0
C14_Witness ==
    /\ ret.kind = "generateTeams"
    /\ ret.options.type = "balanced"
    /\ ret.options.numberOfTeams = 2
    /\ Len(members) = 5
    /\ members[1].skillLevel = 1
    /\ members[2].skillLevel = 3 /\ members[4].skillLevel = 3
    /\ members[3].skillLevel = 1
    /\ members[5].skillLevel = 2
    /\ ret.teams[1].members = <<members[2], members[1], members[3]>>
    /\ ret.teams[2].members = <<members[4], members[5]>>

-----------------------------------------------------------------------------
(* The separated generation on pools of up to MaxAllocPool people *)

AllocPools ==
    {loadData(s) : s \in PoolsOver(Genders \X {1} \X {CurrentYear - 20}, MaxAllocPool)}

InitAllocate ==
    /\ members \in AllocPools
    /\ ret = NoCall
    /\ uiIdle
    /\ rosterIdle

NextAllocate == CallGenerateSeparated \/ Return

SpecAllocate == InitAllocate /\ [][NextAllocate]_vars

CountOf(ms, g) == Cardinality({i \in DOMAIN ms : ms[i].gender = g})

\* C15 (largest remainder): with G represented genders, remaining =
\* requestedTeams - G and leftover = remaining - sum of the floors, the
\* allocation of each gender is 1 + floor(remaining * poolSize / total) plus
\* one iff fewer than leftover genders come before it in the order by
\* fractional remainder descending, ties in iteration order; leftover < G.
C15_LargestRemainder ==
    (ret.kind = "separated" /\ ~ret.blocked)
    => LET G == Len(ret.allocations)
           total == Len(members)
           remaining == ret.requestedTeams - G
           size(i) == CountOf(members, ret.allocations[i].gender)
           floorOf(i) == (remaining * size(i)) \div total
           \* the fractional remainder of gender i, times total
           rem(i) == (remaining * size(i)) % total
           sumFloors == LET RECURSIVE S(_)
                            S(i) == IF i = 0 THEN 0 ELSE floorOf(i) + S(i - 1)
                        IN S(G)
           leftover == remaining - sumFloors
           before(i) == Cardinality({j \in 1..G : rem(j) > rem(i)})
                        + Cardinality({j \in 1..(i - 1) : rem(j) = rem(i)})
       IN /\ leftover < G
          /\ \A i \in 1..G :
                ret.allocations[i].finalAllocation =
                    1 + floorOf(i) + (IF before(i) < leftover THEN 1 ELSE 0)

NonEmptyTeams(ts) == {t \in DOMAIN ts : ts[t].members # <<>>}

\* C16: for a non-empty pre-filtered pool of M people generateTeams returns
\* exactly N teams, balanced or random, of which min(N, M) are non-empty.
C16_TeamCount ==
    (ret.kind = "generateTeams" /\ preFilter(members, ret.options) # <<>>)
    => /\ Len(ret.teams) = ret.options.numberOfTeams
       /\ Cardinality(NonEmptyTeams(ret.teams)) =
              Min2(ret.options.numberOfTeams, Len(preFilter(members, ret.options)))

\* random mode, three teams asked of the one Female of the pool: three teams
\* come back, the second and the third empty
C16_Witness ==
    /\ ret.kind = "generateTeams"
    /\ ret.options.type = "female"
    /\ ret.options.numberOfTeams = 3
    /\ Len(members) = 2
    /\ Len(preFilter(members, ret.options)) = 1
    /\ Len(ret.teams) = 3
    /\ NonEmptyTeams(ret.teams) = {1}

\* C17 (random mode): the person at index i of the shuffled pre-filtered
\* pool is in team i mod N, so team k has ceil((M - k) / N) members, sizes
\* do not increase with the team index and differ by at most 1.
C17_RandomModulo ==
    (ret.kind = "core" /\ ret.call.op = "generateTeams"
        /\ ret.call.options.type # "balanced"
        /\ preFilter(ret.input, ret.call.options) # <<>>)
    => LET shuffled == shuffleArray(preFilter(ret.input, ret.call.options), ret.call.draws)
           M == Len(shuffled)
           N == ret.call.options.numberOfTeams
           size(k) == Len(ret.out[k + 1].members)
       IN /\ \A i \in 0..(M - 1) :
                /\ size(i % N) > i \div N
                /\ ret.out[(i % N) + 1].members[(i \div N) + 1] = shuffled[i + 1]
          /\ \A k \in 0..(N - 1) : size(k) = (M - k + N - 1) \div N
          /\ \A k \in 0..(N - 2) : size(k) >= size(k + 1)
          /\ \A k, l \in 0..(N - 1) : size(k) - size(l) <= 1

\* three Male people shuffled into an order other than the input's and
\* dealt to two teams: the first and third of the shuffled order, and the
\* second
C17_Witness ==
    /\ ret.kind = "core"
    /\ ret.call.op = "generateTeams"
    /\ ret.call.options.type = "male"
    /\ ret.call.options.numberOfTeams = 2
    /\ Len(ret.input) = 3
    /\ Len(ret.out) = 2
    /\ ret.out[1].members = <<ret.input[3], ret.input[2]>>
    /\ ret.out[2].members = <<ret.input[1]>>

\* position in ms of the first person of gender g
FirstOf(ms, g) == CHOOSE i \in DOMAIN ms : ms[i].gender = g
                                            /\ \A j \in 1..(i - 1) : ms[j].gender # g

\* C18 (separated output): the genders come in order of first appearance in
\* the filtered pool; the teams of the i-th gender g follow those of the
\* genders before it, are named "<g> Team 1" .. "<g> Team a_g", hold only
\* people of g, and are the snake draft of the people of g (type balanced
\* whatever type is selected) into a_g teams.
C18_SeparatedStructure ==
    (ret.kind = "separated" /\ ~ret.blocked)
    => LET G == Len(ret.allocations)
           gender(i) == ret.allocations[i].gender
           a(i) == ret.allocations[i].finalAllocation
           offset(i) == LET RECURSIVE S(_)
                            S(j) == IF j = 0 THEN 0 ELSE a(j) + S(j - 1)
                        IN S(i - 1)
           sub(i) == SelectSeq(members, LAMBDA m : m.gender = gender(i))
       IN /\ {gender(i) : i \in 1..G} = RepresentedGenders(members)
          /\ \A i, j \in 1..G :
                i < j => FirstOf(members, gender(i)) < FirstOf(members, gender(j))
          /\ Len(ret.teams) = offset(G + 1)
          /\ \A i \in 1..G :
                /\ \A n \in 1..a(i) :
                      LET team == ret.teams[offset(i) + n]
                      IN /\ team.name = [prefix |-> gender(i), n |-> n]
                         /\ \A p \in DOMAIN team.members :
                                team.members[p].gender = gender(i)
                /\ \A p \in DOMAIN sub(i) :
                      LET k == SkillRank(sub(i), p)
                          t == SnakeTeam(k, a(i))
                          earlier == {q \in DOMAIN sub(i) :
                                         /\ SkillRank(sub(i), q) < k
                                         /\ SnakeTeam(SkillRank(sub(i), q), a(i)) = t}
                          team == ret.teams[offset(i) + t + 1]
                      IN /\ Len(team.members) > Cardinality(earlier)
                         /\ team.members[Cardinality(earlier) + 1] = sub(i)[p]

\* type "female" selected, three teams of a Female of skill 1, a Male and a
\* Female of skill 2 in that order: Female Team 1 and 2 with the better
\* Female first, then Male Team 1
C18_Witness ==
    /\ ret.kind = "separated"
    /\ ~ret.blocked
    /\ ret.selectedType = "female"
    /\ ret.requestedTeams = 3
    /\ Len(members) = 3
    /\ Len(ret.teams) = 3
    /\ ret.teams[1].name = [prefix |-> "Female", n |-> 1]
    /\ ret.teams[1].members = <<members[3]>>
    /\ ret.teams[2].name = [prefix |-> "Female", n |-> 2]
    /\ ret.teams[2].members = <<members[1]>>
    /\ ret.teams[3].name = [prefix |-> "Male", n |-> 1]
    /\ ret.teams[3].members = <<members[2]>>

-----------------------------------------------------------------------------
(* TeamGenerator.tsx: generations issued while another one waits *)

OverlapPools == {PatternPool(n, <<"Male", "Female", "Other">>) : n \in 3..MaxOverlapPool}

InitOverlap ==
    /\ members = <<>>
    /\ ret = NoCall
    /\ attendancePool \in OverlapPools
    /\ filteredMembers = <<>>
    /\ genderFilter = AllGenders
    /\ genderMode = "mixed"
    /\ generationOptions = Options("balanced", 2, NoRange, NoRange)
    /\ teams = <<>>
    /\ isGenerating = FALSE
    /\ alerts = <<>>
    /\ pending = <<>>
    /\ effectDue = TRUE
    /\ effectRange = [min |-> ClampFloor, max |-> ClampFloor]
    /\ teamClampRule = "conservative"
    /\ rosterIdle

\* Regenerate Teams: rendered with the teams and without a disabled
\* attribute, so generateTeams starts again while earlier calls wait
RegenerateClick ==
    /\ Len(teams) > 0
    /\ Len(filteredMembers) >= 2
    /\ Len(pending) < MaxOverlap
    /\ isGenerating' = TRUE
    /\ pending' = Append(pending, [filteredMembers |-> filteredMembers,
                                   genderMode |-> genderMode,
                                   generationOptions |-> generationOptions])
    /\ UNCHANGED <<callVars, rosterVars, attendancePool, filteredMembers, genderFilter, genderMode,
                   generationOptions, teams, alerts, effectDue, effectRange, teamClampRule>>

NextOverlap ==
    \/ ToggleGender
    \/ SetGenderMode
    \/ FilterEffect
    \/ GenerateClick
    \/ RegenerateClick
    \/ GenerateComplete

SpecOverlap == InitOverlap /\ [][NextOverlap]_vars

\* what the render shows as teams once request c has completed over `shown`
TeamsAfter(c, shown) ==
    LET out == generationOutcome(c, <<>>)
    IN IF out.blocked THEN shown ELSE out.newTeams

\* the teams on display once every waiting request has completed, oldest first
RECURSIVE DisplayedAfterAll(_, _)
DisplayedAfterAll(waiting, shown) ==
    IF waiting = <<>> THEN shown
    ELSE DisplayedAfterAll(Tail(waiting), TeamsAfter(Head(waiting), shown))

CurrentRender == [filteredMembers |-> filteredMembers, genderMode |-> genderMode,
                  generationOptions |-> generationOptions]

\* C19 as stated: with a second request issued while one waits, the teams
\* displayed after both have completed are those of the request issued last.
C19_LastRequestDisplayed ==
    Len(pending) = 2
    => DisplayedAfterAll(pending, teams) = generationOutcome(pending[2], <<>>).newTeams

\* C19 (overlapping requests, amended): a request captures the filtered pool,
\* gender mode and options of the render it was issued in and no later step
\* changes them; requests complete oldest first, each one computing from
\* what it captured; a request that is not blocked replaces the displayed
\* teams and a blocked one leaves them, so the teams finally displayed are
\* those of the last request that was not blocked.
C19_OverlappingRequests ==
    /\ []((Len(pending) = 2
           /\ ~generationOutcome(pending[2], <<>>).blocked)
          => DisplayedAfterAll(pending, teams)
                 = generationOutcome(pending[2], <<>>).newTeams)
    /\ [][/\ Len(pending') > Len(pending) => pending' = Append(pending, CurrentRender)
          /\ Len(pending') = Len(pending) => pending' = pending
          /\ Len(pending') < Len(pending)
                => /\ pending' = Tail(pending)
                   /\ teams' = TeamsAfter(Head(pending), teams)
                   /\ DisplayedAfterAll(pending', teams')
                          = DisplayedAfterAll(pending, teams)]_vars

\* two requests wait, issued over different filtered pools, and the filters
\* have changed again since the second
C19_Witness ==
    /\ Len(pending) = 2
    /\ teams # <<>>
    /\ pending[1].filteredMembers # pending[2].filteredMembers
    /\ pending[2].filteredMembers # filteredMembers
    /\ ~generationOutcome(pending[1], <<>>).blocked
    /\ ~generationOutcome(pending[2], <<>>).blocked
    /\ generationOutcome(pending[1], <<>>).newTeams
           # generationOutcome(pending[2], <<>>).newTeams

-----------------------------------------------------------------------------
(* teamBalancer.ts: calculateTeamStats on teams of every composition *)

SkillSteps == {1, 2}

\* a team's members: m Male, then f Female, then o Other, the skill levels
\* running through 1..MaxSkillLevel in steps of `step`
TeamMembers(m, f, o, step) ==
    loadData([i \in 1..(m + f + o) |->
                 StoredMember(i,
                              IF i <= m THEN "Male" ELSE IF i <= m + f THEN "Female" ELSE "Other",
                              ((i * step) % MaxSkillLevel) + 1,
                              CurrentYear - 20)])

\* how many Male, Female and Other a team of up to MaxTeamSize members has
StatCounts ==
    {c \in (0..MaxTeamSize) \X (0..MaxTeamSize) \X (0..MaxTeamSize) :
        c[1] + c[2] + c[3] <= MaxTeamSize}

StatTeams == {TeamMembers(c[1], c[2], c[3], step) : c \in StatCounts, step \in SkillSteps}

InitStats ==
    /\ members \in StatTeams
    /\ ret = NoCall
    /\ attendancePool = <<>>
    /\ filteredMembers = <<>>
    /\ genderFilter = AllGenders
    /\ genderMode = "mixed"
    /\ generationOptions = Options("balanced", 2, NoRange, NoRange)
    /\ teams = <<>>
    /\ isGenerating = FALSE
    /\ alerts = <<>>
    /\ pending = <<>>
    /\ effectDue = FALSE
    /\ effectRange = [min |-> ClampFloor, max |-> ClampFloor]
    /\ teamClampRule = "conservative"
    /\ rosterIdle

CallCalculateTeamStats ==
    /\ ret.kind = "none"
    /\ ret' = [kind |-> "stats",
               team |-> calculateTeamStats([emptyTeam(0) EXCEPT !.members = members])]
    /\ UNCHANGED <<members, uiVars, rosterVars>>

NextStats == CallCalculateTeamStats \/ Return

SpecStats == InitStats /\ [][NextStats]_vars

\* C20 (team statistics): a non-empty team has avgSkill (in tenths) =
\* round(10 * sum of skill levels / size) and, for each gender, genderRatio =
\* round(100 * count of the gender / size); an empty team has 0 everywhere.
C20_TeamStatistics ==
    ret.kind = "stats"
    => LET ms == ret.team.members
           size == Len(ms)
           count(g) == Cardinality({i \in DOMAIN ms : ms[i].gender = g})
       IN IF size = 0
          THEN /\ ret.team.avgSkill = 0
               /\ ret.team.genderRatio = [male |-> 0, female |-> 0, other |-> 0]
          ELSE /\ ret.team.avgSkill = (20 * SumSkill(ms) + size) \div (2 * size)
               /\ ret.team.genderRatio.male = (200 * count("Male") + size) \div (2 * size)
               /\ ret.team.genderRatio.female = (200 * count("Female") + size) \div (2 * size)
               /\ ret.team.genderRatio.other = (200 * count("Other") + size) \div (2 * size)

\* C21 (unknown operator): a rule whose op is none of the six known ones
\* passes for everybody, so adding it after or before the rules of any
\* criteria leaves the result of applyFilters as it was.
C21_UnknownOperator ==
    ret.kind = "applyFilters"
    => \A r \in UnknownRules :
          /\ \A i \in DOMAIN members : rulePass(members[i], r)
          /\ ret.withUnknown[r] = <<ret.out, ret.out>>

\* a known rule has removed one of two people, and the rule with op "matches"
\* next to it on a jersey that does not contain its value changes nothing
C21_Witness ==
    /\ ret.kind = "applyFilters"
    /\ Len(members) = 2
    /\ ret.opts.customRules = <<Rule("jersey", "gte", VNum(7))>>
    /\ members[1].attrs["jersey"] = VNum(7)
    /\ members[2].attrs["jersey"] = VUndef
    /\ ret.out = <<members[1]>>
    /\ ret.withUnknown[Rule("jersey", "matches", VStr(<<"A">>))]
           = <<(<<members[1]>>), (<<members[1]>>)>>

-----------------------------------------------------------------------------
(* utils/filters.ts: gte and lte rules on people with and without the key *)

\* m.attrs of a person saved without attributes (attrs is optional)
NoAttrMap == [k \in {} |-> VUndef]

\* attribute maps: none, one without the keys, jersey 7, 12 or "7"
RuleAttrMaps ==
    {NoAttrMap, NoAttrs} \cup
    {[k \in AttrKeys |-> v] : v \in {VNum(7), VNum(12), VStr(<<"7">>)}}

RulePools ==
    UNION {{[i \in 1..n |->
                [loadData(<<StoredMember(i, "Male", 1, CurrentYear - 20)>>)[1]
                     EXCEPT !.attrs = a[i]]] :
               a \in [1..n -> RuleAttrMaps]} : n \in 1..MaxRulePool}

NumericValues == {VNum(0), VNum(10), VNum(0 - 1), VStr(<<"1", "0">>)}

NumericRules == {Rule(key, op, value) : key \in {"jersey", "shoe"}, op \in {"gte", "lte"},
                                        value \in NumericValues}

RuleOpts ==
    {[genderFilter |-> AllGenders, ageBands |-> <<>>, ageRange |-> NoLegacyRange,
      skillRange |-> [min |-> Undefined, max |-> Undefined], customRules |-> <<r>>] :
        r \in NumericRules}

InitRules ==
    /\ members \in RulePools
    /\ ret = NoCall
    /\ uiIdle
    /\ rosterIdle

CallApplyRules ==
    /\ ret.kind = "none"
    /\ \E opts \in RuleOpts :
          ret' = [kind |-> "applyRules", opts |-> opts, out |-> applyFilters(members, opts)]
    /\ UNCHANGED <<members, uiVars, rosterVars>>

NextRules == CallApplyRules \/ Return

SpecRules == InitRules /\ [][NextRules]_vars

\* the person has no value under the key: no map, or a map without the key
LacksKey(m, key) == key \notin DOMAIN m.attrs \/ m.attrs[key] = VUndef

\* C22 (missing attribute): under a gte or lte rule with a numeric value
\* nobody who lacks the rule's key is in the result.
C22_MissingAttribute ==
    ret.kind = "applyRules"
    => \A i \in DOMAIN members :
          LacksKey(members[i], ret.opts.customRules[1].key)
          => \A k \in DOMAIN ret.out : ret.out[k] # members[i]

\* jersey gte 10 on a person saved without attributes and one with jersey 12
C22_Witness ==
    /\ ret.kind = "applyRules"
    /\ ret.opts.customRules = <<Rule("jersey", "gte", VNum(10))>>
    /\ Len(members) = 2
    /\ members[1].attrs = NoAttrMap
    /\ attrOf(members[2], "jersey") = VNum(12)
    /\ ret.out = <<members[2]>>

-----------------------------------------------------------------------------
(* teamBalancer.ts: shuffleArray on arrays with and without repeated elements *)

\* which element stands in each slot: the first slot holds element 1 and a
\* slot holds an element seen before or the next new one
SlotPatterns(n) ==
    {a \in [1..n -> 1..Max2(n, 1)] :
        \A i \in 1..n : a[i] <= 1 + Cardinality({a[j] : j \in 1..(i - 1)})}

ShuffleArrays ==
    UNION {{[i \in 1..n |->
                loadData(<<StoredMember(a[i], "Male", 1, CurrentYear - 20)>>)[1]] :
               a \in SlotPatterns(n)} : n \in 0..MaxShuffleLen}

InitShuffle ==
    /\ members \in ShuffleArrays
    /\ ret = NoCall
    /\ uiIdle
    /\ rosterIdle

CallShuffleArray ==
    /\ ret.kind = "none"
    /\ \E draws \in DrawSeqs(Len(members)) :
          LET after == shuffleArrayIn(heapOf(members), "members", draws)
          IN ret' = [kind |-> "shuffle", draws |-> draws,
                     input |-> after["members"], out |-> after["shuffled"]]
    /\ UNCHANGED <<members, uiVars, rosterVars>>

NextShuffle == CallShuffleArray \/ Return

SpecShuffle == InitShuffle /\ [][NextShuffle]_vars

Occurrences(seq, x) == Cardinality({i \in DOMAIN seq : seq[i] = x})

Bijections(n) == {f \in [1..n -> 1..n] : \A i, j \in 1..n : f[i] = f[j] => i = j}

OrdersOf(seq) == {[i \in 1..Len(seq) |-> seq[f[i]]] : f \in Bijections(Len(seq))}

\* C23 (shuffle): the result has the length of the input and every element
\* as often as the input has it, the input array is as it was, and the
\* results over all sequences of draws are all the permutations of the input.
C23_ShufflePermutation ==
    /\ ret.kind = "shuffle"
       => /\ Len(ret.out) = Len(members)
          /\ \A i \in DOMAIN members :
                Occurrences(ret.out, members[i]) = Occurrences(members, members[i])
          /\ \A k \in DOMAIN ret.out : Occurrences(members, ret.out[k]) > 0
          /\ ret.input = members
    /\ ret.kind = "none"
       => {shuffleArray(members, draws) : draws \in DrawSeqs(Len(members))}
              = OrdersOf(members)

\* four slots holding three different elements, the first of them twice,
\* come back in another order
C23_Witness ==
    /\ ret.kind = "shuffle"
    /\ Len(members) = 4
    /\ members[1] = members[3]
    /\ members[2] # members[1]
    /\ members[4] # members[1]
    /\ members[4] # members[2]
    /\ ret.out = <<members[4], members[1], members[1], members[2]>>
    /\ ret.input = members

-----------------------------------------------------------------------------
(* teamBalancer.ts: generateTeams on the pool of Scenario A *)

ScenarioSkills == <<5, 5, 4, 4, 3, 3, 2, 2, 1, 1>>

\* the skill levels in the order the pool lists them: the scenario's list
\* or its reverse, started at any of its positions
ScenarioOrders ==
    LET n == Len(ScenarioSkills)
    IN {[i \in 1..n |-> ScenarioSkills[((i - 1 + r) % n) + 1]] : r \in 0..(n - 1)}
       \cup {[i \in 1..n |-> ScenarioSkills[n - ((i - 1 + r) % n)]] : r \in 0..(n - 1)}

\* the four Female people stand next to each other from slot k on (going
\* round), the six others are Male
ScenarioPools ==
    LET n == Len(ScenarioSkills)
    IN {loadData([i \in 1..n |->
                     StoredMember(i,
                                  IF ((i - k) % n) < 4 THEN "Female" ELSE "Male",
                                  order[i], CurrentYear - 20)]) :
           order \in ScenarioOrders, k \in 1..n}

InitScenario ==
    /\ members \in ScenarioPools
    /\ ret = NoCall
    /\ uiIdle
    /\ rosterIdle

NextScenario == CallGenerateTeams \/ Return

SpecScenario == InitScenario /\ [][NextScenario]_vars

\* C24 (Scenario A): balanced generation of 2 teams from the 10 people gives
\* two teams of 5 whose average skills differ by at most 0.5 (5 tenths).
C24_ScenarioA ==
    (ret.kind = "generateTeams" /\ ret.options.type = "balanced"
     /\ ret.options.numberOfTeams = 2)
    => /\ Len(ret.teams) = 2
       /\ Len(ret.teams[1].members) = 5
       /\ Len(ret.teams[2].members) = 5
       /\ ret.teams[1].avgSkill - ret.teams[2].avgSkill <= 5
       /\ ret.teams[2].avgSkill - ret.teams[1].avgSkill <= 5

\* the pool lists a 1 before the 5s; both teams come out with 5, 4, 3, 2, 1
C24_Witness ==
    /\ ret.kind = "generateTeams"
    /\ ret.options.type = "balanced"
    /\ ret.options.numberOfTeams = 2
    /\ members[1].skillLevel = 1
    /\ members[2].skillLevel = 5
    /\ Cardinality({i \in DOMAIN members : members[i].gender = "Female"}) = 4
    /\ Len(ret.teams) = 2
    /\ [i \in 1..5 |-> ret.teams[1].members[i].skillLevel] = <<5, 4, 3, 2, 1>>
    /\ [i \in 1..5 |-> ret.teams[2].members[i].skillLevel] = <<5, 4, 3, 2, 1>>
    /\ ret.teams[1].avgSkill = 30
    /\ ret.teams[2].avgSkill = 30

\* the requested count lies in the range the clamp computes under some policy
WithinClampRange(ms, n) ==
    \E rule \in {"conservative", "relaxed"} :
        LET range == effectClampRange(ms, "separated", rule)
        IN range.min <= n /\ n <= range.max

\* C25 (no empty team): a separated generation of a count inside the clamp
\* range gives no gender more teams than it has people, and no team of the
\* result is empty.
C25_NoEmptyTeam ==
    (ret.kind = "separated" /\ WithinClampRange(members, ret.requestedTeams))
    => /\ ~ret.blocked
       /\ \A i \in DOMAIN ret.allocations :
             ret.allocations[i].finalAllocation
                 <= Cardinality({j \in DOMAIN members :
                                    members[j].gender = ret.allocations[i].gender})
       /\ \A t \in DOMAIN ret.teams : Len(ret.teams[t].members) > 0

\* C26 (distinct ids): the teams one generation returns, mixed or separated,
\* have pairwise different ids.
C26_DistinctIds ==
    ret.kind \in {"generateTeams", "separated"}
    => \A i, j \in DOMAIN ret.teams : ret.teams[i].id = ret.teams[j].id => i = j

\* the mixed part of C26 alone
MixedIdsDistinct ==
    ret.kind = "generateTeams"
    => \A i, j \in DOMAIN ret.teams : ret.teams[i].id = ret.teams[j].id => i = j

\* C27 (isGenerating): the flag is true exactly while some generation
\* request waits for its timer.
C27_GeneratingWhilePending ==
    isGenerating <=> pending # <<>>

\* one direction of C27: with no request waiting the flag is false
IdleNotGenerating ==
    pending = <<>> => ~isGenerating

-----------------------------------------------------------------------------
(* The roster of DataManager and the selection store *)

\* groupId of a member that is in no group
NoGroup == 0

Group(id, name) == [id |-> id, name |-> name]
RosterMember(id, groupId, isPresent) ==
    [id |-> id, groupId |-> groupId, isPresent |-> isPresent]
Location(id, groups, ms) == [id |-> id, groups |-> groups, members |-> ms]

arrayIncludes(xs, x) == \E i \in DOMAIN xs : xs[i] = x

\* the location with this id, <<>> when there is none
getLocationById(roster, locationId) ==
    SelectSeq(roster, LAMBDA l : l.id = locationId)

\* the members of the roster whose group reference is this group
getMembersByGroupId(roster, groupId) ==
    Concat([l \in DOMAIN roster |->
               SelectSeq(roster[l].members, LAMBDA m : m.groupId = groupId)])

Selection(ls, gs, ms) ==
    [selectedLocationIds |-> ls, selectedGroupIds |-> gs, selectedMemberIds |-> ms]

\* validMemberIds of setGroups and setMembers
validMemberIds(roster, groupIds) ==
    Concat([g \in DOMAIN groupIds |->
               [k \in DOMAIN getMembersByGroupId(roster, groupIds[g]) |->
                   getMembersByGroupId(roster, groupIds[g])[k].id]])

\* validGroupIds of setLocations
validGroupIds(roster, ids) ==
    Concat([i \in DOMAIN ids |->
               LET found == getLocationById(roster, ids[i])
               IN IF found = <<>> THEN <<>>
                  ELSE [k \in DOMAIN found[1].groups |-> found[1].groups[k].id]])

setMembersUnfiltered(roster, s, ids) ==
    [s EXCEPT !.selectedMemberIds = ids]

setMembers(roster, s, ids) ==
    [s EXCEPT !.selectedMemberIds =
        SelectSeq(ids, LAMBDA id :
            arrayIncludes(validMemberIds(roster, s.selectedGroupIds), id))]

setGroups(roster, s, ids) ==
    [s EXCEPT !.selectedGroupIds = ids,
              !.selectedMemberIds =
                  SelectSeq(s.selectedMemberIds, LAMBDA id :
                      arrayIncludes(validMemberIds(roster, ids), id))]

setLocations(roster, s, ids) ==
    LET filteredGroups ==
            SelectSeq(s.selectedGroupIds, LAMBDA g :
                arrayIncludes(validGroupIds(roster, ids), g))
        narrowed == [s EXCEPT !.selectedLocationIds = ids,
                              !.selectedGroupIds = filteredGroups]
    IN setMembers(roster, narrowed, narrowed.selectedMemberIds)

clear(s) == Selection(<<>>, <<>>, <<>>)

\* two locations; one member of the first is in no group
SelectionRoster ==
    << Location(1, <<Group(11, "A"), Group(12, "B")>>,
                <<RosterMember(101, 11, TRUE), RosterMember(102, 12, TRUE),
                  RosterMember(103, NoGroup, TRUE)>>),
       Location(2, <<Group(21, "C")>>, <<RosterMember(201, 21, FALSE)>>) >>

\* an id no location, group or member has
UnknownId == 999

SelectableLocationIds == {1, 2, UnknownId}
SelectableGroupIds == {11, 12, 21, UnknownId}
SelectableMemberIds == {101, 102, 103, 201, UnknownId}

\* the id lists a caller passes: up to MaxSelect ids in ascending order
IdLists(S) ==
    {ids \in UNION {[1..n -> S] : n \in 0..MaxSelect} :
        \A i \in 1..(Len(ids) - 1) : ids[i] < ids[i + 1]}

currentSelection == Selection(selectedLocationIds, selectedGroupIds, selectedMemberIds)

\* the store takes the selection s; ret keeps the call and the part of the
\* earlier selection the call read
StoreBecomes(s, kind, ids, before) ==
    /\ selectedLocationIds' = s.selectedLocationIds
    /\ selectedGroupIds' = s.selectedGroupIds
    /\ selectedMemberIds' = s.selectedMemberIds
    /\ ret' = [kind |-> kind, ids |-> ids, before |-> before]
    /\ UNCHANGED <<members, uiVars, dataVars, presenceVars>>

InitSelection ==
    /\ members = <<>>
    /\ ret = NoCall
    /\ uiIdle
    /\ locations = SelectionRoster
    /\ storage = SelectionRoster
    /\ thrown = ""
    /\ clock = 0
    /\ selectionIdle
    /\ presenceIdle

CallSetLocations ==
    \E ids \in IdLists(SelectableLocationIds) :
        StoreBecomes(setLocations(locations, currentSelection, ids), "setLocations", ids, <<>>)

CallSetGroups ==
    \E ids \in IdLists(SelectableGroupIds) :
        StoreBecomes(setGroups(locations, currentSelection, ids), "setGroups", ids, selectedMemberIds)

CallSetMembers ==
    \E ids \in IdLists(SelectableMemberIds) :
        StoreBecomes(setMembers(locations, currentSelection, ids), "setMembers", ids, selectedGroupIds)

CallClear == StoreBecomes(clear(currentSelection), "clear", <<>>, <<>>)

NextSelection == CallSetLocations \/ CallSetGroups \/ CallSetMembers \/ CallClear

SpecSelection == InitSelection /\ [][NextSelection]_vars

\* the member with this id is in one of these groups
InGroups(roster, memberId, groupIds) ==
    \E l \in DOMAIN roster : \E k \in DOMAIN roster[l].members :
        /\ roster[l].members[k].id = memberId
        /\ arrayIncludes(groupIds, roster[l].members[k].groupId)

\* C28 (selection store): every selected member id is the id of a member of
\* a selected group; setGroups keeps exactly the selected members that are in
\* the new groups, setMembers keeps exactly the given ids that are in the
\* selected groups, and clear empties the three selections.
C28_SelectionStore ==
    /\ \A i \in DOMAIN selectedMemberIds :
           InGroups(locations, selectedMemberIds[i], selectedGroupIds)
    /\ ret.kind = "setGroups" =>
           /\ selectedGroupIds = ret.ids
           /\ selectedMemberIds =
                  SelectSeq(ret.before,
                            LAMBDA id : InGroups(locations, id, ret.ids))
    /\ ret.kind = "setMembers" =>
           /\ selectedGroupIds = ret.before
           /\ selectedMemberIds =
                  SelectSeq(ret.ids,
                            LAMBDA id : InGroups(locations, id, selectedGroupIds))
    /\ ret.kind = "clear" =>
           /\ selectedLocationIds = <<>>
           /\ selectedGroupIds = <<>>
           /\ selectedMemberIds = <<>>

\* setMembers was given a member of a selected group and a member of an
\* unselected one, and kept only the first
C28_Witness ==
    /\ ret.kind = "setMembers"
    /\ ret.ids = <<101, 102>>
    /\ selectedGroupIds = <<11>>
    /\ selectedMemberIds = <<101>>

-----------------------------------------------------------------------------
(* Debounced presence of the attendance screen *)

\* the delay of the debounce timer, in ms
DebounceMs == 300

\* the shorter of the two amounts by which time is let pass
Elapse == DebounceMs \div 3

Put(f, k, v) == [x \in DOMAIN f \cup {k} |-> IF x = k THEN v ELSE f[x]]
Without(f, k) == [x \in DOMAIN f \ {k} |-> f[x]]

\* Object.assign(member, updates)
assign(member, updates) ==
    [f \in DOMAIN member |-> IF f \in DOMAIN updates THEN updates[f] ELSE member[f]]

\* updateMember: the roster afterwards, and whether saveData was reached
updateMember(roster, locationId, memberId, updates) ==
    LET first == CHOOSE l \in DOMAIN roster :
                    /\ roster[l].id = locationId
                    /\ \A j \in 1..(l - 1) : roster[j].id # locationId
        who == CHOOSE k \in DOMAIN roster[first].members :
                    /\ roster[first].members[k].id = memberId
                    /\ \A j \in 1..(k - 1) : roster[first].members[j].id # memberId
    IN IF ~\E l \in DOMAIN roster : roster[l].id = locationId
       THEN [locations |-> roster, saving |-> FALSE]
       ELSE IF ~\E k \in DOMAIN roster[first].members :
                    roster[first].members[k].id = memberId
       THEN [locations |-> roster, saving |-> FALSE]
       ELSE [locations |-> [roster EXCEPT ![first].members[who] = assign(@, updates)],
             saving |-> TRUE]

updateMemberPresence(roster, locationId, memberId, isPresent) ==
    updateMember(roster, locationId, memberId, [isPresent |-> isPresent])

\* the handle setTimeout returns: larger than every handle given out before
nextHandle(ptimer) ==
    1 + Cardinality({h \in 1..MaxToggles : \E m \in DOMAIN ptimer : ptimer[m] >= h})

debouncedSavePresenceNoClear(table, ptimer, locationId, memberId, newVal) ==
    [timers |-> Put(table, nextHandle(ptimer),
                    [locationId |-> locationId, memberId |-> memberId,
                     newVal |-> newVal, left |-> DebounceMs]),
     presenceTimer |-> Put(ptimer, memberId, nextHandle(ptimer))]

\* debouncedSavePresence up to the return of setTimeout
debouncedSavePresence(table, ptimer, locationId, memberId, newVal) ==
    LET cleared == IF memberId \in DOMAIN ptimer
                   THEN Without(table, ptimer[memberId])
                   ELSE table
    IN [timers |-> Put(cleared, nextHandle(ptimer),
                       [locationId |-> locationId, memberId |-> memberId,
                        newVal |-> newVal, left |-> DebounceMs]),
        presenceTimer |-> Put(ptimer, memberId, nextHandle(ptimer))]

PresenceRoster ==
    << Location(1, <<Group(11, "A")>>,
                <<RosterMember(101, 11, TRUE), RosterMember(102, NoGroup, FALSE)>>) >>

\* the rows of the attendance screen: a member and the id of its location
PresenceRows ==
    UNION {{[locationId |-> locations[l].id, member |-> locations[l].members[k]] :
               k \in DOMAIN locations[l].members} : l \in DOMAIN locations}

FailedMessage == "Failed to update presence - reverted change"

InitPresence ==
    /\ members = <<>>
    /\ ret = NoCall
    /\ uiIdle
    /\ locations = PresenceRoster
    /\ storage = PresenceRoster
    /\ thrown = ""
    /\ clock = 0
    /\ selectionIdle
    /\ presenceIdle

\* a click on the presence button of a row
HandlePresenceToggle ==
    /\ nextHandle(presenceTimer) <= MaxToggles
    /\ \E row \in PresenceRows :
          LET id == row.member.id
              currentPresence == IF id \in DOMAIN presenceByMemberId
                                 THEN presenceByMemberId[id]
                                 ELSE row.member.isPresent
              newVal == ~currentPresence
              armed == debouncedSavePresence(timers, presenceTimer,
                                             row.locationId, id, newVal)
          IN /\ presenceByMemberId' = Put(presenceByMemberId, id, newVal)
             /\ timers' = armed.timers
             /\ presenceTimer' = armed.presenceTimer
    /\ UNCHANGED <<callVars, uiVars, dataVars, selectionVars, error, presenceCalls>>

\* time passes, at most until the next timer is due
AdvanceTime ==
    /\ DOMAIN timers # {}
    /\ \E d \in {Elapse} \cup {timers[h].left : h \in DOMAIN timers} :
          /\ d > 0
          /\ \A h \in DOMAIN timers : timers[h].left >= d
          /\ timers' = [h \in DOMAIN timers |->
                           [timers[h] EXCEPT !.left = @ - d]]
    /\ UNCHANGED <<callVars, uiVars, dataVars, selectionVars,
                   presenceByMemberId, presenceTimer, error, presenceCalls>>

\* the callback of a debounce timer; localStorage.setItem may throw
TimerFires ==
    \E h \in DOMAIN timers : \E quotaExceeded \in BOOLEAN :
       LET t == timers[h]
           done == updateMemberPresence(locations, t.locationId, t.memberId, t.newVal)
           threw == done.saving /\ quotaExceeded
       IN /\ t.left = 0
          /\ timers' = Without(timers, h)
          /\ locations' = done.locations
          /\ storage' = IF done.saving /\ ~threw THEN done.locations ELSE storage
          /\ presenceCalls' = Append(presenceCalls,
                                     [memberId |-> t.memberId, isPresent |-> t.newVal,
                                      threw |-> threw])
          /\ IF threw
             THEN /\ presenceByMemberId' = Put(presenceByMemberId, t.memberId, ~t.newVal)
                  /\ error' = FailedMessage
             ELSE UNCHANGED <<presenceByMemberId, error>>
          /\ UNCHANGED <<callVars, uiVars, thrown, clock, selectionVars, presenceTimer>>

\* the 3 s timer that takes the error banner away
ErrorTimeout ==
    /\ error # ""
    /\ error' = ""
    /\ UNCHANGED <<callVars, uiVars, dataVars, selectionVars,
                   presenceByMemberId, presenceTimer, timers, presenceCalls>>

NextPresence == HandlePresenceToggle \/ AdvanceTime \/ TimerFires \/ ErrorTimeout

\* timers run: time passes while a timer is pending, and a due callback runs
SpecPresence ==
    /\ InitPresence
    /\ [][NextPresence]_vars
    /\ WF_vars(AdvanceTime)
    /\ WF_vars(TimerFires)

PresenceMemberIds == {101, 102}

TimersOf(id) == {h \in DOMAIN timers : timers[h].memberId = id}

\* isPresent of the member in a roster
isPresentIn(roster, id) ==
    LET l == CHOOSE l \in DOMAIN roster :
                 \E k \in DOMAIN roster[l].members : roster[l].members[k].id = id
        k == CHOOSE k \in DOMAIN roster[l].members : roster[l].members[k].id = id
    IN roster[l].members[k].isPresent

\* the last updateMemberPresence call for the member, <<>> when there was none
LastCall(id) ==
    LET mine == SelectSeq(presenceCalls, LAMBDA c : c.memberId = id)
    IN IF mine = <<>> THEN <<>> ELSE <<mine[Len(mine)]>>

\* at most one save is pending per member, it carries the value shown, and
\* with none pending the roster in storage has the value shown, unless
\* the save threw, and then the value shown is the opposite of the one sent
PresenceSettled ==
    \A id \in DOMAIN presenceByMemberId :
        /\ Cardinality(TimersOf(id)) <= 1
        /\ \A h \in TimersOf(id) : timers[h].newVal = presenceByMemberId[id]
        /\ TimersOf(id) = {} =>
              /\ LastCall(id) # <<>>
              /\ IF LastCall(id)[1].threw
                 THEN presenceByMemberId[id] = ~LastCall(id)[1].isPresent
                 ELSE /\ LastCall(id)[1].isPresent = presenceByMemberId[id]
                      /\ isPresentIn(storage, id) = presenceByMemberId[id]

\* a toggle makes no call and leaves the timers of the other members alone,
\* and its timer runs the full 300 ms; a call is made only by a timer that
\* is due, one call per timer, carrying the value shown for the member
PresenceSteps ==
    /\ presenceTimer' # presenceTimer =>
          /\ presenceCalls' = presenceCalls
          /\ \A h \in DOMAIN timers :
                (/\ timers[h].memberId \in DOMAIN presenceTimer
                 /\ presenceTimer'[timers[h].memberId] = presenceTimer[timers[h].memberId])
                => (h \in DOMAIN timers' /\ timers'[h] = timers[h])
          /\ \A h \in DOMAIN timers' \ DOMAIN timers : timers'[h].left = DebounceMs
    /\ presenceCalls' # presenceCalls =>
          /\ Len(presenceCalls') = Len(presenceCalls) + 1
          /\ \E h \in DOMAIN timers :
                /\ timers[h].left = 0
                /\ DOMAIN timers' = DOMAIN timers \ {h}
                /\ presenceCalls'[Len(presenceCalls')].memberId = timers[h].memberId
                /\ presenceCalls'[Len(presenceCalls')].isPresent
                       = presenceByMemberId[timers[h].memberId]

-----------------------------------------------------------------------------
(* Groups of a location: createGroup, renameGroup, deleteGroup, addMember *)

LocationNotFound == "Location not found"
MaximumGroups == "Maximum groups allowed per location"

\* a || b of JavaScript on numbers, <<>> being undefined
OrElse(a, b) == IF a = <<>> \/ a = <<0>> THEN b ELSE a[1]

\* index of the first location with this id, 0 when there is none
findLocation(roster, locationId) ==
    IF \E l \in DOMAIN roster : roster[l].id = locationId
    THEN CHOOSE l \in DOMAIN roster :
             /\ roster[l].id = locationId
             /\ \A j \in 1..(l - 1) : roster[j].id # locationId
    ELSE 0

\* what a call leaves: the roster, the error thrown before saveData ("" when
\* none), and whether saveData was reached
Outcome(roster, message, saving) ==
    [locations |-> roster, thrown |-> message, saving |-> saving]

\* config is <<>> (no config, or no maxGroups in it) or <<n>>
createGroup(roster, locationId, name, config, now) ==
    LET l == findLocation(roster, locationId)
        maxGroups == OrElse(config, MaxGroupsPerLocation)
    IN IF l = 0 THEN Outcome(roster, LocationNotFound, FALSE)
       ELSE IF Len(roster[l].groups) >= maxGroups
       THEN Outcome(roster, MaximumGroups, FALSE)
       ELSE Outcome([roster EXCEPT ![l].groups = Append(@, Group(now, name))],
                    "", TRUE)

renameGroup(roster, locationId, groupId, name) ==
    LET l == findLocation(roster, locationId)
    IN IF l = 0 THEN Outcome(roster, "", FALSE)
       ELSE IF ~\E g \in DOMAIN roster[l].groups : roster[l].groups[g].id = groupId
       THEN Outcome(roster, "", FALSE)
       ELSE LET g == CHOOSE g \in DOMAIN roster[l].groups :
                        /\ roster[l].groups[g].id = groupId
                        /\ \A j \in 1..(g - 1) : roster[l].groups[j].id # groupId
            IN Outcome([roster EXCEPT ![l].groups[g].name = name], "", TRUE)

\* reassign is <<>> (no option), <<NoGroup>> or <<id>>
deleteGroup(roster, locationId, groupId, reassign) ==
    LET l == findLocation(roster, locationId)
    IN IF l = 0 THEN Outcome(roster, "", FALSE)
       ELSE Outcome(
               [roster EXCEPT
                  ![l].groups = SelectSeq(@, LAMBDA g : g.id # groupId),
                  ![l].members =
                      [k \in DOMAIN @ |->
                          IF @[k].groupId = groupId
                          THEN [@[k] EXCEPT !.groupId = OrElse(reassign, NoGroup)]
                          ELSE @[k]]],
               "", TRUE)

addMember(roster, locationId, member, now) ==
    LET l == findLocation(roster, locationId)
    IN IF l = 0 THEN Outcome(roster, LocationNotFound, FALSE)
       ELSE Outcome([roster EXCEPT ![l].members =
                        Append(@, [member EXCEPT !.id = now])],
                    "", TRUE)

GroupRoster == << Location(1, <<>>, <<>>) >>

CalledLocationIds == {1, UnknownId}
\* no config, a limit of 0, the limit of the settings
Configs == {<<>>, <<0>>, <<MaxGroupsPerLocation>>}

\* the ids of the groups of the roster
GroupIds(roster) ==
    UNION {{roster[l].groups[g].id : g \in DOMAIN roster[l].groups} : l \in DOMAIN roster}

InitGroups ==
    /\ members = <<>>
    /\ ret = NoCall
    /\ uiIdle
    /\ locations = GroupRoster
    /\ storage = GroupRoster
    /\ thrown = ""
    /\ clock = 1
    /\ selectionIdle
    /\ presenceIdle

\* the call ends: saveData writes the roster if the call got that far; ret
\* keeps the call, the number of groups its location had and whether the
\* roster or storage differ from before
Ends(out, kind, locationId, config) ==
    /\ locations' = out.locations
    /\ storage' = IF out.saving THEN out.locations ELSE storage
    /\ thrown' = out.thrown
    /\ ret' = [kind |-> kind, locationId |-> locationId, config |-> config,
               found |-> findLocation(locations, locationId) # 0,
               groups |-> IF findLocation(locations, locationId) = 0 THEN 0
                          ELSE Len(locations[findLocation(locations, locationId)].groups),
               changed |-> (locations' # locations \/ storage' # storage)]
    /\ UNCHANGED <<members, uiVars, clock, selectionVars, presenceVars>>

CallCreateGroup ==
    \E id \in CalledLocationIds : \E config \in Configs :
        Ends(createGroup(locations, id, "A", config, clock), "createGroup", id, config)

CallRenameGroup ==
    \E id \in CalledLocationIds : \E groupId \in GroupIds(locations) \cup {UnknownId} :
        Ends(renameGroup(locations, id, groupId, "B"), "renameGroup", id, <<>>)

CallDeleteGroup ==
    \E id \in CalledLocationIds : \E groupId \in GroupIds(locations) \cup {UnknownId} :
    \E reassign \in {<<>>, <<NoGroup>>} \cup {<<g>> : g \in GroupIds(locations)} :
        Ends(deleteGroup(locations, id, groupId, reassign), "deleteGroup", id, <<>>)

CallAddMember ==
    \E id \in CalledLocationIds : \E groupId \in {NoGroup} \cup GroupIds(locations) :
        /\ \A l \in DOMAIN locations : Len(locations[l].members) < MaxRosterMembers
        /\ Ends(addMember(locations, id, RosterMember(0, groupId, TRUE), clock),
                "addMember", id, <<>>)

\* Date.now() moves on
Tick ==
    /\ clock < MaxClock
    /\ clock' = clock + 1
    /\ UNCHANGED <<callVars, uiVars, locations, storage, thrown,
                   selectionVars, presenceVars>>

NextGroups ==
    CallCreateGroup \/ CallRenameGroup \/ CallDeleteGroup \/ CallAddMember \/ Tick

SpecGroups == InitGroups /\ [][NextGroups]_vars

\* the maximum a createGroup call is to go by: the override when one is
\* given, the setting otherwise
MaximumOf(config) == IF config = <<>> THEN MaxGroupsPerLocation ELSE config[1]

\* C30 (group cap): createGroup on a location that holds the maximum of the
\* call throws and changes neither the roster nor storage; createGroup and
\* addMember on an unknown location throw 'Location not found' and change
\* nothing; no location has more groups than the setting allows.
C30_GroupCap ==
    /\ (/\ ret.kind = "createGroup"
        /\ ret.found
        /\ ret.groups >= MaximumOf(ret.config))
       => (thrown = MaximumGroups /\ ~ret.changed)
    /\ (/\ ret.kind \in {"createGroup", "addMember"}
        /\ ~ret.found)
       => (thrown = LocationNotFound /\ ~ret.changed)
    /\ \A l \in DOMAIN locations : Len(locations[l].groups) <= MaxGroupsPerLocation

\* the same with an override of 0 read as no override
GroupCapHeld ==
    /\ (/\ ret.kind = "createGroup"
        /\ ret.found
        /\ ret.config # <<0>>
        /\ ret.groups >= MaximumOf(ret.config))
       => (thrown = MaximumGroups /\ ~ret.changed)
    /\ (/\ ret.kind \in {"createGroup", "addMember"}
        /\ ~ret.found)
       => (thrown = LocationNotFound /\ ~ret.changed)
    /\ \A l \in DOMAIN locations : Len(locations[l].groups) <= MaxGroupsPerLocation

====
